---- MODULE Spec2Model ----
(***************************************************************************)
(* FixedPrecision (src/src/FixedPrecision.ts, first class definition):     *)
(* fixed-point decimals held as a scaled bigint `value`, with the          *)
(* process-wide configuration FixedPrecision.format / SCALE / SCALENUMBER. *)
(*                                                                         *)
(* A bigint is modelled without a width limit, as a sign and a sequence of *)
(* decimal digits.  A JavaScript Number is modelled as an IEEE-754 double: *)
(* a sign, a 53-bit significand (a sequence of bits) and a binary          *)
(* exponent, every operation rounded to nearest, ties to even.  A          *)
(* JavaScript string is a sequence of one-character strings.               *)
(***************************************************************************)
EXTENDS Integers, Sequences, FiniteSets, TLC

VARIABLES places, roundingMode, SCALE, SCALENUMBER, a, b, last

vars == <<places, roundingMode, SCALE, SCALENUMBER, a, b, last>>

(***************************************************************************)
(* Natural numbers of any width: sequences of digits in a base B, most     *)
(* significant digit first, without leading zeros; <<>> is 0.  Base 10     *)
(* carries the magnitude of a bigint, base 2 the significand of a Number   *)
(* and the exact result of a Number operation before it is rounded.        *)
(***************************************************************************)
Zeros(n) ==
    [i \in 1..n |-> 0]

Max(m, n) ==
    IF m >= n THEN m ELSE n

\* F(v): the value v under a name.
With(v, F(_)) ==
    F(v)

\* e, with v evaluated first.  TLC evaluates the argument of an operator
\* only where it is used; having the low digits evaluated before the high
\* digits that need their carry keeps its evaluation stack shallow.
First(v, e) ==
    IF v = v THEN e ELSE e

\* The operators below work on the digits i..j of their arguments and split
\* that range in two halves, so that the depth of the recursion is the
\* logarithm of the number of digits.  Each operator on whole numbers first
\* tests its arguments for zero, which also has them evaluated before the
\* recursion starts.

\* The number of zeros that digits i..j of x start with (LeadingZeros) or
\* end with (TrailingZerosIn).
RECURSIVE LeadingZeros(_, _, _)
LeadingZeros(x, i, j) ==
    IF i > j THEN 0
    ELSE IF i = j THEN (IF x[i] = 0 THEN 1 ELSE 0)
    ELSE LET m == (i + j) \div 2
             z == LeadingZeros(x, i, m)
         IN  IF z < m - i + 1 THEN z ELSE z + LeadingZeros(x, m + 1, j)

RECURSIVE TrailingZerosIn(_, _, _)
TrailingZerosIn(x, i, j) ==
    IF i > j THEN 0
    ELSE IF i = j THEN (IF x[i] = 0 THEN 1 ELSE 0)
    ELSE LET m == (i + j) \div 2
             z == TrailingZerosIn(x, m + 1, j)
         IN  IF z < j - m THEN z ELSE z + TrailingZerosIn(x, i, m)

StripLeading(x) ==
    SubSeq(x, LeadingZeros(x, 1, Len(x)) + 1, Len(x))

TrailingZeros(x) ==
    TrailingZerosIn(x, 1, Len(x))

StripTrailing(x) ==
    SubSeq(x, 1, Len(x) - TrailingZeros(x))

PadTo(x, n) ==
    Zeros(n - Len(x)) \o x

RECURSIVE NatOfInt(_, _)
NatOfInt(n, B) ==
    IF n = 0 THEN <<>> ELSE Append(NatOfInt(n \div B, B), n % B)

RECURSIVE IntOfNat(_, _)
IntOfNat(x, B) ==
    IF x = <<>> THEN 0 ELSE B * IntOfNat(SubSeq(x, 1, Len(x) - 1), B) + x[Len(x)]

\* -1, 0 or 1 as x < y, x = y or x > y, on digits i..j.
RECURSIVE CmpDigits(_, _, _, _)
CmpDigits(x, y, i, j) ==
    IF i > j THEN 0
    ELSE IF i = j
    THEN (IF x[i] < y[i] THEN -1 ELSE IF x[i] > y[i] THEN 1 ELSE 0)
    ELSE LET m == (i + j) \div 2
             c == CmpDigits(x, y, i, m)
         IN  IF c # 0 THEN c ELSE CmpDigits(x, y, m + 1, j)

CmpNat(x, y) ==
    IF Len(x) < Len(y) THEN -1
    ELSE IF Len(x) > Len(y) THEN 1
    ELSE CmpDigits(x, y, 1, Len(x))

\* Digits i..j of x + y + c: [s |-> the sum's digits, c |-> the carry out].
RECURSIVE AddDigits(_, _, _, _, _, _)
AddDigits(x, y, i, j, c, B) ==
    IF i > j THEN [s |-> <<>>, c |-> c]
    ELSE IF i = j
    THEN LET t == x[i] + y[i] + c IN [s |-> <<t % B>>, c |-> t \div B]
    ELSE LET m  == (i + j) \div 2
             lo == AddDigits(x, y, m + 1, j, c, B)
             hi == AddDigits(x, y, i, m, lo.c, B)
         IN  First(lo, [s |-> hi.s \o lo.s, c |-> hi.c])

\* The number whose digits are the carry r.c and then r.s.
Carried(r) ==
    StripLeading(<<r.c>> \o r.s)

AddNat(x, y, B) ==
    IF x = <<>> THEN y
    ELSE IF y = <<>> THEN x
    ELSE LET n == Max(Len(x), Len(y))
         IN  Carried(AddDigits(PadTo(x, n), PadTo(y, n), 1, n, 0, B))

\* Digits i..j of x - y - c: [s |-> digits, c |-> the borrow out].
RECURSIVE SubDigits(_, _, _, _, _, _)
SubDigits(x, y, i, j, c, B) ==
    IF i > j THEN [s |-> <<>>, c |-> c]
    ELSE IF i = j
    THEN LET t == x[i] - y[i] - c
         IN  [s |-> <<IF t < 0 THEN t + B ELSE t>>, c |-> IF t < 0 THEN 1 ELSE 0]
    ELSE LET m  == (i + j) \div 2
             lo == SubDigits(x, y, m + 1, j, c, B)
             hi == SubDigits(x, y, i, m, lo.c, B)
         IN  First(lo, [s |-> hi.s \o lo.s, c |-> hi.c])

\* x - y for x >= y.
SubNat(x, y, B) ==
    IF x = <<>> \/ y = <<>> THEN x
    ELSE StripLeading(SubDigits(x, PadTo(y, Len(x)), 1, Len(x), 0, B).s)

\* Digits i..j of x * d + c for one digit d.
RECURSIVE MulDigits(_, _, _, _, _, _)
MulDigits(x, d, i, j, c, B) ==
    IF i > j THEN [s |-> <<>>, c |-> c]
    ELSE IF i = j
    THEN LET t == x[i] * d + c IN [s |-> <<t % B>>, c |-> t \div B]
    ELSE LET m  == (i + j) \div 2
             lo == MulDigits(x, d, m + 1, j, c, B)
             hi == MulDigits(x, d, i, m, lo.c, B)
         IN  First(lo, [s |-> hi.s \o lo.s, c |-> hi.c])

\* x times the digits i..j of y.
RECURSIVE MulRange(_, _, _, _, _)
MulRange(x, y, i, j, B) ==
    IF i > j THEN <<>>
    ELSE IF i = j
    THEN Carried(MulDigits(x, y[i], 1, Len(x), 0, B))
    ELSE LET m  == (i + j) \div 2
             hi == MulRange(x, y, i, m, B)
             lo == MulRange(x, y, m + 1, j, B)
         IN  IF hi = <<>> THEN lo ELSE AddNat(hi \o Zeros(j - m), lo, B)

MulNat(x, y, B) ==
    IF x = <<>> \/ y = <<>> THEN <<>> ELSE MulRange(x, y, 1, Len(y), B)

\* x * d for one digit d.
MulDigit(x, d, B) ==
    IF x = <<>> \/ d = 0 THEN <<>>
    ELSE Carried(MulDigits(x, d, 1, Len(x), 0, B))

\* The largest k in lo..hi with y * k <= t, given that y * lo <= t.
RECURSIVE QuotDigit(_, _, _, _, _)
QuotDigit(t, y, lo, hi, B) ==
    IF lo >= hi THEN lo
    ELSE LET mid == (lo + hi + 1) \div 2
         IN  IF CmpNat(MulDigit(y, mid, B), t) <= 0
             THEN QuotDigit(t, y, mid, hi, B)
             ELSE QuotDigit(t, y, lo, mid - 1, B)

\* How often y > 0 goes into t < B * y: [k |-> count, r |-> rest].
CountSub(t, y, B) ==
    IF CmpNat(t, y) < 0 THEN [k |-> 0, r |-> t]
    ELSE With(QuotDigit(t, y, 1, B - 1, B),
              LAMBDA k : [k |-> k, r |-> SubNat(t, MulDigit(y, k, B), B)])

\* Long division by y > 0 over digits i..j of x, entered with the rest r of
\* the digits before them: [q |-> quotient digits, r |-> rest].
RECURSIVE DivDigits(_, _, _, _, _, _)
DivDigits(r, x, i, j, y, B) ==
    IF i > j THEN [q |-> <<>>, r |-> r]
    ELSE IF i = j
    THEN With(CountSub(StripLeading(Append(r, x[i])), y, B),
              LAMBDA s : [q |-> <<s.k>>, r |-> s.r])
    ELSE LET m  == (i + j) \div 2
             hi == DivDigits(r, x, i, m, y, B)
             lo == DivDigits(hi.r, x, m + 1, j, y, B)
         IN  [q |-> hi.q \o lo.q, r |-> lo.r]

DivModNat(x, y, B) ==
    IF CmpNat(x, y) < 0 THEN [q |-> <<>>, r |-> x]
    ELSE With(DivDigits(<<>>, x, 1, Len(x), y, B),
              LAMBDA d : [q |-> StripLeading(d.q), r |-> d.r])

\* B1^k in base B2.
RECURSIVE PowNat(_, _, _)
PowNat(B1, k, B2) ==
    IF k = 0 THEN <<1>>
    ELSE LET h == PowNat(B1, k \div 2, B2)
         IN  MulNat(h, IF k % 2 = 1 THEN MulNat(h, NatOfInt(B1, B2), B2) ELSE h, B2)

\* The digits i..j of x, given in base B1, as a number in base B2.
RECURSIVE RebaseRange(_, _, _, _, _)
RebaseRange(x, i, j, B1, B2) ==
    IF i > j THEN <<>>
    ELSE IF i = j THEN NatOfInt(x[i], B2)
    ELSE LET m  == (i + j) \div 2
             hi == RebaseRange(x, i, m, B1, B2)
             lo == RebaseRange(x, m + 1, j, B1, B2)
         IN  IF hi = <<>> THEN lo
             ELSE AddNat(MulNat(hi, PowNat(B1, j - m, B2), B2), lo, B2)

Rebase(x, B1, B2) ==
    IF x = <<>> THEN <<>> ELSE RebaseRange(x, 1, Len(x), B1, B2)

\* The arithmetic on bits is done on groups of WideBits bits, the digits of
\* base Wide = 2^WideBits: Pack groups the bits of x, Unpack spreads the
\* digits of d.
WideBits == 13

Wide ==
    2^WideBits

Pack(x) ==
    LET n == (Len(x) + WideBits - 1) \div WideBits
        p == PadTo(x, n * WideBits)
    IN  StripLeading([g \in 1..n |->
            IntOfNat(SubSeq(p, (g - 1) * WideBits + 1, g * WideBits), 2)])

Unpack(d) ==
    StripLeading([i \in 1..(Len(d) * WideBits) |->
        (d[(i - 1) \div WideBits + 1] \div 2^(WideBits - 1 - ((i - 1) % WideBits))) % 2])

\* Decimal digits to bits and back.
BitsOfDecimal(x) ==
    Unpack(Rebase(x, 10, Wide))

DecimalOfBits(x) ==
    Rebase(Pack(x), Wide, 10)

\* x * y on bits, and x / y on bits with whether it leaves a rest.
MulBits(x, y) ==
    Unpack(MulNat(Pack(x), Pack(y), Wide))

DivModBits(x, y) ==
    With(DivModNat(Pack(x), Pack(y), Wide),
         LAMBDA d : [q |-> Unpack(d.q), inexact |-> d.r # <<>>])

(***************************************************************************)
(* bigint: [neg |-> sign, mag |-> decimal digits]; 0n is never negative.   *)
(* The operators are JavaScript's: / truncates toward zero and % takes the *)
(* sign of the dividend.                                                   *)
(***************************************************************************)
Big(neg, mag) ==
    [neg |-> neg /\ mag # <<>>, mag |-> mag]

BigOfInt(n) ==
    Big(n < 0, NatOfInt(IF n < 0 THEN 0 - n ELSE n, 10))

IntOfBig(x) ==
    IF x.neg THEN 0 - IntOfNat(x.mag, 10) ELSE IntOfNat(x.mag, 10)

BigZero ==
    Big(FALSE, <<>>)

BigNeg(x) ==
    Big(~x.neg, x.mag)

BigAbs(x) ==
    Big(FALSE, x.mag)

BigAdd(x, y) ==
    IF x.neg = y.neg THEN Big(x.neg, AddNat(x.mag, y.mag, 10))
    ELSE IF CmpNat(x.mag, y.mag) >= 0 THEN Big(x.neg, SubNat(x.mag, y.mag, 10))
    ELSE Big(y.neg, SubNat(y.mag, x.mag, 10))

BigSub(x, y) ==
    BigAdd(x, BigNeg(y))

BigMul(x, y) ==
    Big(x.neg # y.neg, MulNat(x.mag, y.mag, 10))

\* x / y and x % y for y # 0n.
BigDiv(x, y) ==
    Big(x.neg # y.neg, DivModNat(x.mag, y.mag, 10).q)

BigRem(x, y) ==
    Big(x.neg, DivModNat(x.mag, y.mag, 10).r)

\* -1, 0 or 1 as x < y, x = y or x > y.
BigCmp(x, y) ==
    IF x.neg # y.neg THEN (IF x.neg THEN -1 ELSE 1)
    ELSE IF x.neg THEN CmpNat(y.mag, x.mag)
    ELSE CmpNat(x.mag, y.mag)

\* 10n ** BigInt(n) for n >= 0.
BigPow10(n) ==
    Big(FALSE, <<1>> \o Zeros(n))

(***************************************************************************)
(* Number: NaN, or (-1)^neg * man * 2^exp with man either <<>> (zero) or   *)
(* exactly MantBits bits, the first of them 1.  The values of the model    *)
(* stay far inside the exponent range, so there is no overflow to Infinity *)
(* and no subnormal.                                                       *)
(***************************************************************************)
MantBits == 53

NaN ==
    [nan |-> TRUE, neg |-> FALSE, man |-> <<>>, exp |-> 0]

NumberZero(neg) ==
    [nan |-> FALSE, neg |-> neg, man |-> <<>>, exp |-> 0]

\* The double nearest to (-1)^neg * (bits + f) * 2^e, where 0 <= f < 1 and
\* sticky tells whether f > 0 (only when bits has more than MantBits + 1
\* bits); ties go to the even significand.
RoundBits(neg, bits, e, sticky) ==
    With(StripLeading(bits), LAMBDA n :
        IF Len(n) = 0 THEN NumberZero(neg)
        ELSE IF Len(n) <= MantBits
        THEN [nan |-> FALSE, neg |-> neg, man |-> n \o Zeros(MantBits - Len(n)),
              exp |-> e - (MantBits - Len(n))]
        ELSE LET L     == Len(n)
                 top   == SubSeq(n, 1, MantBits)
                 guard == n[MantBits + 1]
                 rest  == sticky \/ \E i \in (MantBits + 2)..L : n[i] = 1
                 up    == guard = 1 /\ (rest \/ n[MantBits] = 1)
             IN  With(IF up THEN AddNat(top, <<1>>, 2) ELSE top, LAMBDA m1 :
                     IF Len(m1) > MantBits
                     THEN [nan |-> FALSE, neg |-> neg, man |-> SubSeq(m1, 1, MantBits),
                           exp |-> e + (L - MantBits) + 1]
                     ELSE [nan |-> FALSE, neg |-> neg, man |-> m1,
                           exp |-> e + (L - MantBits)]))

\* Number(x) for a bigint x, and the value of an integer literal.
NumberOfBig(x) ==
    RoundBits(x.neg, BitsOfDecimal(x.mag), 0, FALSE)

NumberOfInt(n) ==
    NumberOfBig(BigOfInt(n))

\* num / den for natural numbers in base 10, den > 0, correctly rounded.
NumberOfRatio(neg, num, den) ==
    With(DivModBits(BitsOfDecimal(num) \o Zeros(2 * MantBits), BitsOfDecimal(den)),
         LAMBDA d : RoundBits(neg, d.q, 0 - 2 * MantBits, d.inexact))

\* x * y
NumberMul(x, y) ==
    IF x.nan \/ y.nan THEN NaN
    ELSE IF x.man = <<>> \/ y.man = <<>> THEN NumberZero(x.neg # y.neg)
    ELSE RoundBits(x.neg # y.neg, MulBits(StripTrailing(x.man), StripTrailing(y.man)),
                   x.exp + TrailingZeros(x.man) + y.exp + TrailingZeros(y.man),
                   FALSE)

\* x / y for y # 0
NumberDiv(x, y) ==
    IF x.nan \/ y.nan \/ y.man = <<>> THEN NaN
    ELSE IF x.man = <<>> THEN NumberZero(x.neg # y.neg)
    ELSE With(DivModBits(x.man \o Zeros(2 * MantBits), StripTrailing(y.man)),
              LAMBDA d : RoundBits(x.neg # y.neg, d.q,
                                   x.exp - 2 * MantBits - (y.exp + TrailingZeros(y.man)),
                                   d.inexact))

\* x + y
NumberAdd(x, y) ==
    IF x.nan \/ y.nan THEN NaN
    ELSE IF x.man = <<>> THEN (IF y.man = <<>> THEN NumberZero(x.neg /\ y.neg) ELSE y)
    ELSE IF y.man = <<>> THEN x
    ELSE LET e  == IF x.exp < y.exp THEN x.exp ELSE y.exp
             xm == x.man \o Zeros(x.exp - e)
             ym == y.man \o Zeros(y.exp - e)
         IN  IF x.neg = y.neg THEN RoundBits(x.neg, AddNat(xm, ym, 2), e, FALSE)
             ELSE With(CmpNat(xm, ym), LAMBDA c :
                      IF c = 0 THEN NumberZero(FALSE)
                      ELSE RoundBits(IF c > 0 THEN x.neg ELSE y.neg,
                                     SubNat(IF c > 0 THEN xm ELSE ym,
                                            IF c > 0 THEN ym ELSE xm, 2),
                                     e, FALSE))

NumberNeg(x) ==
    IF x.nan THEN x ELSE [x EXCEPT !.neg = ~x.neg]

\* x - y
NumberSub(x, y) ==
    NumberAdd(x, NumberNeg(y))

\* Math.abs(x)
MathAbs(x) ==
    [x EXCEPT !.neg = FALSE]

\* -1, 0 or 1 as x < y, x = y or x > y, for two Numbers that are not NaN.
NumberCmp(x, y) ==
    LET mag(u, v) == IF u.man = <<>> THEN (IF v.man = <<>> THEN 0 ELSE -1)
                     ELSE IF v.man = <<>> THEN 1
                     ELSE IF u.exp < v.exp THEN -1
                     ELSE IF u.exp > v.exp THEN 1
                     ELSE CmpNat(u.man, v.man)
        xn == x.neg /\ x.man # <<>>
        yn == y.neg /\ y.man # <<>>
    IN  IF xn # yn THEN (IF xn THEN -1 ELSE 1)
        ELSE IF xn THEN mag(y, x)
        ELSE mag(x, y)

\* x <= y and x < y; a comparison with NaN is false.
NumberLeq(x, y) ==
    ~x.nan /\ ~y.nan /\ NumberCmp(x, y) <= 0

NumberLess(x, y) ==
    ~x.nan /\ ~y.nan /\ NumberCmp(x, y) < 0

\* !x: a Number is falsy when it is 0, -0 or NaN.
Falsy(x) ==
    x.nan \/ x.man = <<>>

\* Math.trunc(x)
MathTrunc(x) ==
    IF x.nan \/ x.man = <<>> \/ x.exp >= 0 THEN x
    ELSE IF 0 - x.exp >= MantBits THEN NumberZero(x.neg)
    ELSE RoundBits(x.neg, SubSeq(x.man, 1, MantBits + x.exp), 0, FALSE)

\* Number.isInteger(x)
NumberIsInteger(x) ==
    /\ ~x.nan
    /\ \/ x.man = <<>>
       \/ x.exp >= 0
       \/ /\ 0 - x.exp < MantBits
          /\ \A i \in (MantBits + x.exp + 1)..MantBits : x.man[i] = 0

\* The result of a call: a value returned, or an exception thrown.
Ok(v) ==
    [ok |-> TRUE, val |-> v]

Throw(msg) ==
    [ok |-> FALSE, err |-> msg]

\* BigInt(x) for a Number x: a RangeError unless x is an integer.
BigIntOfNumber(x) ==
    IF ~NumberIsInteger(x)
    THEN Throw("RangeError: not an integer")
    ELSE IF x.man = <<>> THEN Ok(BigZero)
    ELSE Ok(Big(x.neg, DecimalOfBits(IF x.exp >= 0 THEN x.man \o Zeros(x.exp)
                                     ELSE SubSeq(x.man, 1, MantBits + x.exp))))

\* Math.pow(10, n) and 10 ** n for an integer 0 <= n <= 22, where the
\* power of ten is a double.
NumberPow10Table ==
    [n \in 0..22 |-> NumberOfBig(BigPow10(n))]

NumberPow10(n) ==
    NumberPow10Table[n]

\* BigInt(10 ** n) for an integer 0 <= n <= 22
BigIntPow10Table ==
    [n \in 0..22 |-> BigIntOfNumber(NumberPow10(n)).val]

BigIntPow10(n) ==
    BigIntPow10Table[n]

\* Number.MAX_SAFE_INTEGER = 2^53 - 1
MAX_SAFE_INTEGER ==
    RoundBits(FALSE, [i \in 1..MantBits |-> 1], 0, FALSE)


(***************************************************************************)
(* Strings: sequences of one-character strings, with JavaScript's 0-based  *)
(* positions.  The alphabet of the model is the decimal digits, "-", "+",  *)
(* "." and letters that begin no numeral.                                  *)
(***************************************************************************)
DigitChars ==
    <<"0", "1", "2", "3", "4", "5", "6", "7", "8", "9">>

IsDigit(c) ==
    \E i \in 1..Len(DigitChars) : DigitChars[i] = c

DigitValue(c) ==
    (CHOOSE i \in 1..Len(DigitChars) : DigitChars[i] = c) - 1

\* The natural number that a string of decimal digits spells.
NatOfDigits(str) ==
    StripLeading([i \in 1..Len(str) |-> DigitValue(str[i])])

\* String.prototype.indexOf(ch, from)
indexOf(str, ch, from) ==
    LET hits == {i \in from..(Len(str) - 1) : str[i + 1] = ch}
    IN  IF hits = {} THEN -1 ELSE CHOOSE i \in hits : \A j \in hits : i <= j

\* String.prototype.slice(start, end): a negative position counts from the
\* end of the string.
slice(str, start, end) ==
    LET len  == Len(str)
        from == IF start < 0 THEN Max(len + start, 0) ELSE IF start > len THEN len ELSE start
        to   == IF end < 0 THEN Max(len + end, 0) ELSE IF end > len THEN len ELSE end
    IN  SubSeq(str, from + 1, to)

\* String.prototype.padStart(n, ch)
padStart(str, n, ch) ==
    [i \in 1..(n - Len(str)) |-> ch] \o str

\* BigInt.prototype.toString()
BigIntToString(x) ==
    (IF x.neg THEN <<"-">> ELSE <<>>)
        \o (IF x.mag = <<>> THEN <<"0">>
            ELSE [i \in 1..Len(x.mag) |-> DigitChars[x.mag[i] + 1]])

\* Number(str): the empty string is 0; an optional sign and decimal digits
\* with at most one "." and at least one digit are that decimal, correctly
\* rounded; everything else in the alphabet of the model is NaN.
StringToNumber(str) ==
    LET signed == str # <<>> /\ Head(str) \in {"-", "+"}
        body   == IF signed THEN Tail(str) ELSE str
        dot    == indexOf(body, ".", 0)
        digs   == SelectSeq(body, IsDigit)
        nfrac  == IF dot = -1 THEN 0 ELSE Len(body) - dot - 1
    IN  IF str = <<>> THEN NumberZero(FALSE)
        ELSE IF digs = <<>> \/ Len(digs) + (IF dot = -1 THEN 0 ELSE 1) # Len(body)
        THEN NaN
        ELSE NumberOfRatio(Head(str) = "-", NatOfDigits(digs), BigPow10(nfrac).mag)

\* BigInt(str): the empty string is 0n; an optional sign and decimal digits
\* are that integer; everything else is a SyntaxError.
StringToBigInt(str) ==
    LET signed == str # <<>> /\ Head(str) \in {"-", "+"}
        body   == IF signed THEN Tail(str) ELSE str
    IN  IF str = <<>> THEN Ok(BigZero)
        ELSE IF body = <<>> \/ \E i \in 1..Len(body) : ~IsDigit(body[i])
        THEN Throw("SyntaxError: cannot convert to a BigInt")
        ELSE Ok(Big(Head(str) = "-", NatOfDigits(body)))

\* Arithmetic on the results of calls: the first exception wins.
RMul(r, y) ==
    IF r.ok THEN Ok(BigMul(r.val, y)) ELSE r

RAdd(r1, r2) ==
    IF ~r1.ok THEN r1 ELSE IF ~r2.ok THEN r2 ELSE Ok(BigAdd(r1.val, r2.val))

RSub(r1, r2) ==
    IF ~r1.ok THEN r1 ELSE IF ~r2.ok THEN r2 ELSE Ok(BigSub(r1.val, r2.val))

\* FixedPrecision.pow10Big(n), n >= 0
pow10Big(n) ==
    BigPow10(n)

\* Number.isFinite(x); the model has no infinite Number.
NumberIsFinite(x) ==
    ~x.nan

\* Number.MAX_SAFE_INTEGER / scale
SafeLimit(scale) ==
    NumberDiv(MAX_SAFE_INTEGER, scale)

(***************************************************************************)
(* FixedPrecision.fromString(str): the scaled bigint of a decimal string   *)
(* under the current configuration, or the exception thrown.               *)
(***************************************************************************)
\* The string has no "." after its first character (lines 126-176).
fromStringInteger(str) ==
    With(StringToNumber(str), LAMBDA num :
        LET P      == places
            lens   == Len(str)
            scaled == BigIntOfNumber(NumberMul(num, SCALENUMBER))
        IN  IF P <= 16
            THEN IF lens + P < 16
                 THEN (IF Falsy(num) THEN Ok(BigZero) ELSE scaled)
                 ELSE IF lens < 16 /\ Falsy(num) THEN Ok(BigZero)
                 ELSE IF lens < 16 /\ NumberIsFinite(num)
                 THEN IF NumberLeq(MathAbs(num), SafeLimit(SCALENUMBER)) \/ 16 - lens >= P
                      THEN scaled
                      ELSE RMul(BigIntOfNumber(NumberMul(num, NumberPow10(16 - lens))),
                                pow10Big(P - (16 - lens)))
                 ELSE RMul(StringToBigInt(str), SCALE)
            ELSE IF lens < 16
                 THEN (IF Falsy(num) THEN Ok(BigZero)
                       ELSE RMul(BigIntOfNumber(num), SCALE))
                 ELSE RMul(StringToBigInt(str), SCALE))

\* dotIndex + P <= 16: the whole string goes through Number (lines 177-194).
fromStringShort(str, dotIndex) ==
    With(StringToNumber(str), LAMBDA num :
        LET P  == places
            nP == 16 - dotIndex
        IN  IF NumberLeq(MathAbs(num), SafeLimit(SCALENUMBER)) \/ nP >= P
            THEN BigIntOfNumber(MathTrunc(NumberMul(num, SCALENUMBER)))
            ELSE With(NumberMul(num, NumberPow10(nP)), LAMBDA Num :
                 With(MathTrunc(Num), LAMBDA newNum :
                 With(MathTrunc(NumberSub(newNum, Num)), LAMBDA NewFrac :
                 With(RMul(BigIntOfNumber(newNum), pow10Big(P - nP)), LAMBDA shifted :
                     IF Falsy(NewFrac) THEN shifted
                     ELSE RAdd(shifted, BigIntOfNumber(NewFrac)))))))

\* The length of the multiplier of the fraction digits (lines 206, 211,
\* 231, 245, 254).
fracShift(P, faclen) ==
    IF P >= faclen THEN P - faclen ELSE P

\* nNum - nScaled when nNum is negative, nNum + nScaled otherwise, for a
\* Number nNum and the results of two conversions to bigint.
joinNumber(nNum, whole, nScaled) ==
    IF ~nScaled.ok THEN nScaled
    ELSE IF NumberLess(nNum, NumberZero(FALSE)) THEN RSub(whole, nScaled)
    ELSE RAdd(whole, nScaled)

\* dotIndex + P > 16 and dotIndex < 16: the integer part goes through
\* Number (lines 199-236).
fromStringSplitNumber(str, dotIndex) ==
    With(slice(str, dotIndex + 1, dotIndex + 1 + places), LAMBDA facStr :
    With(StringToNumber(slice(str, 0, dotIndex)), LAMBDA int :
    With(NumberMul(int, SCALENUMBER), LAMBDA nNum :
        LET P      == places
            faclen == Len(facStr)
            fracN  == StringToNumber(facStr)
            newLen == fracShift(P, faclen)
            nP     == 16 - dotIndex
        IN  IF NumberLeq(MathAbs(int), SafeLimit(SCALENUMBER))
            THEN joinNumber(nNum, BigIntOfNumber(nNum),
                            IF P <= 16
                            THEN BigIntOfNumber(NumberMul(fracN, NumberPow10(newLen)))
                            ELSE RMul(StringToBigInt(facStr), pow10Big(newLen)))
            ELSE IF P <= 16
            THEN IF nP >= P
                 THEN BigIntOfNumber(NumberAdd(nNum, fracN))
                 ELSE With(NumberMul(int, NumberPow10(nP)), LAMBDA Num :
                          joinNumber(Num, RMul(BigIntOfNumber(Num), pow10Big(P - nP)),
                                     BigIntOfNumber(NumberMul(fracN, NumberPow10(P - nP)))))
            ELSE With(StringToBigInt(facStr), LAMBDA fracB :
                     IF ~fracB.ok THEN fracB
                     ELSE IF fracB.val = BigZero THEN BigIntOfNumber(nNum)
                     ELSE joinNumber(int, BigIntOfNumber(nNum),
                                     RMul(fracB, pow10Big(newLen)))))))

\* whole - nScaled when int is negative, whole + nScaled otherwise.
joinBigInt(int, whole, nScaled) ==
    IF ~nScaled.ok THEN nScaled
    ELSE IF int.neg THEN RSub(whole, nScaled)
    ELSE RAdd(whole, nScaled)

\* dotIndex >= 16: the integer part goes through BigInt (lines 237-256).
fromStringSplitBigInt(str, dotIndex) ==
    With(slice(str, dotIndex + 1, dotIndex + 1 + places), LAMBDA facStr :
    With(StringToBigInt(slice(str, 0, dotIndex)), LAMBDA int :
        LET P      == places
            newLen == fracShift(P, Len(facStr))
        IN  IF ~int.ok THEN int
            ELSE IF P < 16
            THEN With(StringToNumber(facStr), LAMBDA fracN :
                     IF Falsy(fracN) THEN RMul(int, SCALE)
                     ELSE joinBigInt(int.val, RMul(int, SCALE),
                                     BigIntOfNumber(NumberMul(fracN, NumberPow10(newLen)))))
            ELSE With(StringToBigInt(facStr), LAMBDA fracB :
                     IF ~fracB.ok THEN fracB
                     ELSE IF fracB.val = BigZero THEN RMul(int, SCALE)
                     ELSE joinBigInt(int.val, RMul(int, SCALE),
                                     RMul(fracB, pow10Big(newLen))))))

fromString(str) ==
    LET dotIndex == indexOf(str, ".", 1)
    IN  IF dotIndex = -1 THEN fromStringInteger(str)
        ELSE IF dotIndex + places <= 16 THEN fromStringShort(str, dotIndex)
        ELSE IF dotIndex < 16 THEN fromStringSplitNumber(str, dotIndex)
        ELSE fromStringSplitBigInt(str, dotIndex)

(***************************************************************************)
(* FixedPrecision.toString(value): the scaled bigint as a string under the *)
(* current configuration (lines 285-302).  An empty string is falsy.       *)
(***************************************************************************)
toString(value) ==
    With(IF BigCmp(value, BigZero) < 0 THEN 0 ELSE 1, LAMBDA abs :
    With(BigIntToString(value), LAMBDA s :
    With(IF abs = 1 THEN slice(s, 0, 0 - places) ELSE slice(s, 1, 0 - places), LAMBDA cut :
    With(IF cut = <<>> THEN <<"0">> ELSE cut, LAMBDA intPart :
    With(slice(s, 0 - places, Len(s)), LAMBDA frac0 :
    With(IF Len(frac0) < places THEN padStart(frac0, places, "0") ELSE frac0,
         LAMBDA fracPart :
        IF abs = 1
        THEN (IF fracPart # <<>> THEN intPart \o <<".">> \o fracPart ELSE intPart)
        ELSE (IF fracPart # <<>> THEN <<"-">> \o intPart \o <<".">> \o fracPart
              ELSE <<"-">> \o intPart)))))))

\* FixedPrecision.fromNumber(value): the scaled bigint of a Number, or the
\* exception thrown (lines 260-277).
fromNumber(value) ==
    IF value.nan \/ ~NumberIsFinite(value)
    THEN Throw("Invalid number: value must be a finite number.")
    ELSE With(NumberMul(value, SCALENUMBER), LAMBDA scaled :
             IF NumberLess(MAX_SAFE_INTEGER, MathAbs(scaled))
             THEN IF NumberIsInteger(value)
                  THEN RMul(BigIntOfNumber(value), SCALE)
                  ELSE With(MathTrunc(value), LAMBDA num :
                       With(MathAbs(NumberSub(num, value)), LAMBDA nNum :
                           RAdd(RMul(BigIntOfNumber(num), SCALE),
                                BigIntOfNumber(MathTrunc(NumberMul(nNum, SCALENUMBER))))))
             ELSE BigIntOfNumber(MathTrunc(scaled)))

(***************************************************************************)
(* The state.  places and roundingMode are FixedPrecision.format, SCALE    *)
(* (a bigint) and SCALENUMBER (a Number) the two scale factors.  a and b   *)
(* are two variables of the calling program, each None or a FixedPrecision *)
(* instance; last is the most recent call and how it ended.                *)
(*                                                                         *)
(* An instance has the one field `value`.  The model adds to it, as        *)
(* history, the configuration it was created under (ctxPlaces, ctxMode)    *)
(* and the string it had then (str0); no operation reads them.             *)
(***************************************************************************)
None ==
    [none |-> TRUE]

Instance(value) ==
    [value |-> value, ctxPlaces |-> places, ctxMode |-> roundingMode,
     str0 |-> toString(value)]

\* FixedPrecision.fromRaw(rawValue), lines 110-114
fromRaw(rawValue) ==
    Instance(rawValue)

\* The integer that an integer-valued Number holds.
IntOfNumber(x) ==
    IntOfBig(BigIntOfNumber(x).val)

\* What a call leaves in `last`, for a call that changes nothing else.
Return(op, r) ==
    /\ last' = [op |-> op, r |-> r]
    /\ UNCHANGED <<places, roundingMode, SCALE, SCALENUMBER, a, b>>

(***************************************************************************)
(* FixedPrecision.configure(config), lines 51-76.  config is a record that *)
(* has the field places (a Number), the field roundingMode, both or        *)
(* neither.  The scale factors are assigned as soon as places has passed   *)
(* its test, before roundingMode is looked at.                             *)
(***************************************************************************)
NumberPlacesLimit ==
    NumberOfInt(20)

\* configure() with the upper limit of places off by one.
configureUpTo21(config) ==
    LET hasPlaces == "places" \in DOMAIN config
        hasMode   == "roundingMode" \in DOMAIN config
    IN  With(/\ hasPlaces
             /\ \/ ~NumberIsInteger(config.places)
                \/ NumberLess(config.places, NumberZero(FALSE))
                \/ NumberLess(NumberOfInt(21), config.places), LAMBDA badPlaces :
        With(hasMode /\ config.roundingMode \notin {0, 1, 2, 3, 4, 5, 6, 7, 8},
             LAMBDA badMode :
        With(IF hasPlaces /\ ~badPlaces THEN IntOfNumber(config.places) ELSE places,
             LAMBDA n :
            /\ places' = n
            /\ SCALE' = IF hasPlaces /\ ~badPlaces THEN BigIntPow10(n) ELSE SCALE
            /\ SCALENUMBER' = IF hasPlaces /\ ~badPlaces THEN NumberPow10(n)
                              ELSE SCALENUMBER
            /\ roundingMode' = IF ~badPlaces /\ hasMode /\ ~badMode
                               THEN config.roundingMode ELSE roundingMode
            /\ last' = [op |-> "configure",
                        r  |-> IF badPlaces \/ badMode THEN Throw("Error") ELSE Ok(None)]
            /\ UNCHANGED <<a, b>>)))

configure(config) ==
    LET hasPlaces == "places" \in DOMAIN config
        hasMode   == "roundingMode" \in DOMAIN config
    IN  With(/\ hasPlaces
             /\ \/ ~NumberIsInteger(config.places)
                \/ NumberLess(config.places, NumberZero(FALSE))
                \/ NumberLess(NumberPlacesLimit, config.places), LAMBDA badPlaces :
        With(hasMode /\ config.roundingMode \notin {0, 1, 2, 3, 4, 5, 6, 7, 8},
             LAMBDA badMode :
        With(IF hasPlaces /\ ~badPlaces THEN IntOfNumber(config.places) ELSE places,
             LAMBDA n :
            /\ places' = n
            /\ SCALE' = IF hasPlaces /\ ~badPlaces THEN BigIntPow10(n) ELSE SCALE
            /\ SCALENUMBER' = IF hasPlaces /\ ~badPlaces THEN NumberPow10(n)
                              ELSE SCALENUMBER
            /\ roundingMode' = IF ~badPlaces /\ hasMode /\ ~badMode
                               THEN config.roundingMode ELSE roundingMode
            /\ last' = [op |-> "configure",
                        r  |-> IF badPlaces
                               THEN Throw("Decimal places must be an integer between 0 and 20")
                               ELSE IF badMode
                               THEN Throw("Invalid rounding mode. Must be 0, 1, 2, 3, 4, 5, 6, 7 or 8")
                               ELSE Ok(None)]
            /\ UNCHANGED <<a, b>>)))

(***************************************************************************)
(* new FixedPrecision(val), lines 78-93, assigned to the variable `slot`   *)
(* of the caller.  val is a bigint [type, big], a Number [type, num] or a   *)
(* string [type, str].  When the constructor throws, the variable keeps    *)
(* what it held.                                                           *)
(***************************************************************************)
construct(val) ==
    CASE val.type = "bigint" -> Ok(BigMul(val.big, SCALE))
      [] val.type = "number" -> fromNumber(val.num)
      [] val.type = "string" -> fromString(val.str)

New(slot, val) ==
    With(construct(val), LAMBDA r :
    With(IF r.ok THEN Ok(Instance(r.val)) ELSE r, LAMBDA obj :
        /\ a' = IF slot = "a" /\ r.ok THEN obj.val ELSE a
        /\ b' = IF slot = "b" /\ r.ok THEN obj.val ELSE b
        /\ last' = [op |-> "new", arg |-> val, r |-> obj]
        /\ UNCHANGED <<places, roundingMode, SCALE, SCALENUMBER>>))

(***************************************************************************)
(* The binary methods, called as a.method(b): lines 325-354 and 369-415.   *)
(* The bigint operators / and % throw a RangeError on a zero divisor.      *)
(***************************************************************************)
\* A bigint / that returns 0n on a zero divisor.
DivBigLenient(x, y) ==
    IF y = BigZero THEN Ok(BigZero) ELSE Ok(BigDiv(x, y))

DivBig(x, y) ==
    IF y = BigZero THEN Throw("RangeError: Division by zero") ELSE Ok(BigDiv(x, y))

RemBig(x, y) ==
    IF y = BigZero THEN Throw("RangeError: Division by zero") ELSE Ok(BigRem(x, y))

Raw(r) ==
    IF r.ok THEN Ok(fromRaw(r.val)) ELSE r

cmp ==
    /\ a # None /\ b # None
    /\ Return("cmp", Ok(BigCmp(a.value, b.value)))

eq ==
    /\ a # None /\ b # None
    /\ Return("eq", Ok(a.value = b.value))

gt ==
    /\ a # None /\ b # None
    /\ Return("gt", Ok(BigCmp(a.value, b.value) > 0))

gte ==
    /\ a # None /\ b # None
    /\ Return("gte", Ok(BigCmp(a.value, b.value) >= 0))

lt ==
    /\ a # None /\ b # None
    /\ Return("lt", Ok(BigCmp(a.value, b.value) < 0))

lte ==
    /\ a # None /\ b # None
    /\ Return("lte", Ok(BigCmp(a.value, b.value) <= 0))

\* add() that stores the sum in its receiver.
addInPlace ==
    /\ a # None /\ b # None
    /\ last' = [op |-> "add", r |-> Ok(fromRaw(BigAdd(a.value, b.value)))]
    /\ a' = fromRaw(BigAdd(a.value, b.value))
    /\ UNCHANGED <<places, roundingMode, SCALE, SCALENUMBER, b>>

add ==
    /\ a # None /\ b # None
    /\ Return("add", Ok(fromRaw(BigAdd(a.value, b.value))))

sub ==
    /\ a # None /\ b # None
    /\ Return("sub", Ok(fromRaw(BigSub(a.value, b.value))))

mul ==
    /\ a # None /\ b # None
    /\ Return("mul", Raw(DivBig(BigMul(a.value, b.value), SCALE)))

div ==
    /\ a # None /\ b # None
    /\ Return("div", Raw(DivBig(BigMul(a.value, SCALE), b.value)))

mod ==
    /\ a # None /\ b # None
    /\ Return("mod", Raw(RemBig(BigMul(a.value, SCALE), b.value)))

\* a.toString(), lines 309-311, and a.toJSON(), lines 507-509
toStringMethod ==
    /\ a # None
    /\ Return("toString", Ok(toString(a.value)))

toJSON ==
    /\ a # None
    /\ Return("toJSON", Ok(toString(a.value)))

(***************************************************************************)
(* roundToScale(roundingFactor, rm) on this.value = value, lines 587-651:  *)
(* the quotient after rounding, or the exception of the default case.      *)
(***************************************************************************)
\* roundToScale() that truncates in every mode.
roundToScaleTruncating(value, roundingFactor, rm) ==
    Ok(BigDiv(value, roundingFactor))

\* roundToScale() that rounds every tie away from zero.
roundToScaleTiesAway(value, roundingFactor, rm) ==
    With(BigDiv(value, roundingFactor), LAMBDA quotient :
        IF BigCmp(BigMul(BigOfInt(2), BigAbs(BigRem(value, roundingFactor))),
                  roundingFactor) >= 0
        THEN Ok(IF BigCmp(value, BigZero) > 0 THEN BigAdd(quotient, BigOfInt(1))
                ELSE BigSub(quotient, BigOfInt(1)))
        ELSE Ok(quotient))

roundToScale(value, roundingFactor, rm) ==
    With(BigDiv(value, roundingFactor), LAMBDA quotient :
    With(BigRem(value, roundingFactor), LAMBDA remainder :
    With(IF BigCmp(remainder, BigZero) < 0 THEN BigNeg(remainder) ELSE remainder,
         LAMBDA absRem :
    \* 2n * absRem compared with roundingFactor
    With(BigCmp(BigMul(BigOfInt(2), absRem), roundingFactor), LAMBDA twice :
    \* this.value compared with 0n
    With(BigCmp(value, BigZero), LAMBDA sign :
    \* this.value > 0n ? quotient + 1n : quotient - 1n
    With(IF sign > 0 THEN BigAdd(quotient, BigOfInt(1))
         ELSE BigSub(quotient, BigOfInt(1)), LAMBDA away :
        CASE rm = 0 -> Ok(IF remainder = BigZero THEN quotient ELSE away)
          [] rm = 1 -> Ok(quotient)
          [] rm = 2 -> Ok(IF sign > 0 /\ remainder # BigZero
                          THEN BigAdd(quotient, BigOfInt(1)) ELSE quotient)
          [] rm = 3 -> Ok(IF sign < 0 /\ remainder # BigZero
                          THEN BigSub(quotient, BigOfInt(1)) ELSE quotient)
          [] rm = 4 -> Ok(IF twice >= 0 THEN away ELSE quotient)
          [] rm = 5 -> Ok(IF twice > 0 THEN away ELSE quotient)
          [] rm = 6 -> Ok(IF twice = 0
                          THEN (IF BigRem(quotient, BigOfInt(2)) = BigZero
                                THEN quotient ELSE away)
                          ELSE IF twice > 0 THEN away ELSE quotient)
          [] rm = 7 -> Ok(IF twice >= 0
                          THEN (IF sign > 0 THEN BigAdd(quotient, BigOfInt(1))
                                ELSE quotient)
                          ELSE quotient)
          [] rm = 8 -> Ok(IF twice = 0
                          THEN (IF sign < 0 THEN BigSub(quotient, BigOfInt(1))
                                ELSE quotient)
                          ELSE IF twice > 0 THEN away ELSE quotient)
          [] OTHER  -> Throw("Rounding mode is not supported.")))))))

\* round() that returns the quotient without scaling it back.
roundUnscaled(value, dp, rm) ==
    IF dp < 0 \/ dp > places
    THEN Throw("Decimal places (dp) must be between 0 and places")
    ELSE Raw(roundToScale(value, BigPow10(places - dp), rm))

\* round() that takes one decimal place more than places.
roundLenient(value, dp, rm) ==
    IF dp < 0 \/ dp > places + 1
    THEN Throw("Decimal places (dp) must be between 0 and places")
    ELSE With(BigPow10(Max(places - dp, 0)), LAMBDA factor :
             Raw(RMul(roundToScale(value, factor, rm), factor)))

\* round() that breaks every tie as HALF_UP does.
roundTiesAway(value, dp, rm) ==
    IF dp < 0 \/ dp > places
    THEN Throw("Decimal places (dp) must be between 0 and places")
    ELSE With(BigPow10(places - dp), LAMBDA factor :
             Raw(RMul(roundToScale(value, factor, IF rm \in 5..8 THEN 4 ELSE rm),
                      factor)))

\* round(dp, rm) on this.value = value, lines 660-674
round(value, dp, rm) ==
    IF dp < 0 \/ dp > places
    THEN Throw("Decimal places (dp) must be between 0 and places")
    ELSE With(BigPow10(places - dp), LAMBDA factor :
             Raw(RMul(roundToScale(value, factor, rm), factor)))

\* a.round(dp, rm)
Round(dp, rm) ==
    /\ a # None
    /\ last' = [op |-> "round", dp |-> dp, rm |-> rm, r |-> round(a.value, dp, rm)]
    /\ UNCHANGED <<places, roundingMode, SCALE, SCALENUMBER, a, b>>

\* a.ceil(), a.floor() and a.trunc(), lines 515-535
ceil ==
    /\ a # None
    /\ Return("ceil", round(a.value, 0, 2))

floor ==
    /\ a # None
    /\ Return("floor", round(a.value, 0, 3))

trunc ==
    /\ a # None
    /\ Return("trunc", round(a.value, 0, 1))

\* last.r.val.round(dp, rm): round() called on the value that the last
\* call returned, as in a.round(dp, rm).round(dp, rm).
thenRound(dp, rm) ==
    /\ last.r.ok
    /\ last' = [op |-> "round.round", of |-> last.r.val, dp |-> dp, rm |-> rm,
                r |-> round(last.r.val.value, dp, rm)]
    /\ UNCHANGED <<places, roundingMode, SCALE, SCALENUMBER, a, b>>

\* scale(newScale, rm) on this.value = value, lines 683-697
scale(value, newScale, rm) ==
    IF newScale < 0 \/ newScale > places
    THEN Throw("newScale must be between 0 and places")
    ELSE With(BigPow10(places - newScale), LAMBDA factor :
             Raw(RMul(roundToScale(value, factor, rm), factor)))

\* a.scale(newScale, rm)
Scale(newScale, rm) ==
    /\ a # None
    /\ last' = [op |-> "scale", dp |-> newScale, rm |-> rm,
                r |-> scale(a.value, newScale, rm)]
    /\ UNCHANGED <<places, roundingMode, SCALE, SCALENUMBER, a, b>>

\* toFixed(places, rm) on this.value = value, lines 730-750; decPlaces is
\* the argument.
toFixed(value, decPlaces, rm) ==
    IF decPlaces < 0 \/ decPlaces > places
    THEN Throw("places must be between 0 and places")
    ELSE With(roundToScale(value, BigPow10(places - decPlaces), rm), LAMBDA scaled :
         With(BigPow10(decPlaces), LAMBDA divisor :
             IF ~scaled.ok THEN scaled
             ELSE IF decPlaces > 0
             THEN Ok(BigIntToString(BigDiv(scaled.val, divisor)) \o <<".">>
                     \o padStart(BigIntToString(BigRem(scaled.val, divisor)),
                                 decPlaces, "0"))
             ELSE Ok(BigIntToString(BigDiv(scaled.val, divisor)))))

\* a.toFixed(decPlaces, rm)
ToFixed(decPlaces, rm) ==
    /\ a # None
    /\ last' = [op |-> "toFixed", dp |-> decPlaces, rm |-> rm,
                r |-> toFixed(a.value, decPlaces, rm)]
    /\ UNCHANGED <<places, roundingMode, SCALE, SCALENUMBER, a, b>>

(***************************************************************************)
(* The arithmetic methods as functions of the receiver x and the argument  *)
(* y, for the calls that methods make on values of their own and for calls *)
(* chained on a returned value.                                            *)
(***************************************************************************)
\* x.eq(y) and x.lt(y), lines 332-334 and 347-349
Eq(x, y) ==
    x.value = y.value

Lt(x, y) ==
    BigCmp(x.value, y.value) < 0

\* x.add(y), lines 369-371
Add(x, y) ==
    Ok(fromRaw(BigAdd(x.value, y.value)))

\* x.sub() that adds.
SubAdding(x, y) ==
    Ok(fromRaw(BigAdd(x.value, y.value)))

\* x.sub(y), lines 379-381
Sub(x, y) ==
    Ok(fromRaw(BigSub(x.value, y.value)))

\* x.mul(y), lines 389-393
Mul(x, y) ==
    Raw(DivBig(BigMul(x.value, y.value), SCALE))

\* x.div() that leaves out the scale.
DivUnscaled(x, y) ==
    Raw(DivBig(x.value, y.value))

\* x.div(y), lines 400-404
Div(x, y) ==
    Raw(DivBig(BigMul(x.value, SCALE), y.value))

\* a.fraction(b), lines 406-408, and a.leftover(b), lines 416-418
fraction ==
    /\ a # None /\ b # None
    /\ Return("fraction", Raw(DivBig(a.value, b.value)))

leftover ==
    /\ a # None /\ b # None
    /\ Return("leftover", Raw(RemBig(a.value, b.value)))

\* last.r.val.sub(b) and last.r.val.div(b): the method called on the value
\* that the last call returned, as in a.add(b).sub(b) and a.mul(b).div(b).
thenSub ==
    /\ last.r.ok /\ b # None
    /\ Return("add.sub", Sub(last.r.val, b))

thenDiv ==
    /\ last.r.ok /\ b # None
    /\ Return("mul.div", Div(last.r.val, b))

\* The magnitude x to the power k, by halving k.
RECURSIVE PowMag(_, _)
PowMag(x, k) ==
    IF k = 0 THEN <<1>>
    ELSE With(PowMag(x, k \div 2), LAMBDA h :
             IF k % 2 = 1 THEN MulNat(MulNat(h, h, 10), x, 10)
             ELSE MulNat(h, h, 10))

\* x ** n for bigints (lines 431 and 434): a negative exponent throws, and
\* 0n ** 0n is 1n.
BigPow(x, n) ==
    IF n.neg /\ n # BigZero
    THEN Throw("RangeError: Exponent must be non-negative")
    ELSE With(IntOfBig(n), LAMBDA k :
             Ok(Big(x.neg /\ k % 2 = 1, PowMag(x.mag, k))))

\* x.pow(exp), lines 429-438: both powers are taken to the exponent
\* FixedPrecision.fromNumber(exp), the scaled bigint of exp.
pow(x, exp) ==
    With(fromNumber(exp), LAMBDA e :
    IF ~e.ok THEN e ELSE
    With(BigPow(x.value, e.val), LAMBDA num :
    IF ~num.ok THEN num ELSE
    With(BigPow(SCALE, e.val), LAMBDA den :
    With(Div(fromRaw(num.val), fromRaw(den.val)), LAMBDA result :
        IF ~result.ok THEN result
        ELSE IF NumberLess(exp, NumberZero(FALSE))
             THEN Div(Instance(BigMul(BigOfInt(1), SCALE)), result.val)
             ELSE result))))

Pow(exp) ==
    /\ a # None
    /\ last' = [op |-> "pow", exp |-> exp, r |-> pow(a, exp)]
    /\ UNCHANGED <<places, roundingMode, SCALE, SCALENUMBER, a, b>>

\* sqrtGo(guess, iter) of the instance x, lines 492-502
RECURSIVE sqrtGo(_, _, _)
sqrtGo(x, guess, iter) ==
    IF iter = 0 THEN Ok(guess)
    ELSE With(Div(x, guess), LAMBDA q :
         IF ~q.ok THEN q ELSE
         With(Div(Add(guess, q.val).val, Instance(BigMul(BigOfInt(2), SCALE))),
              LAMBDA next :
                 IF ~next.ok THEN next
                 ELSE IF Eq(guess, next.val) THEN next
                 ELSE sqrtGo(x, next.val, iter - 1)))

\* x.sqrt(), lines 474-485
sqrt(x) ==
    IF Lt(x, Instance(BigMul(BigZero, SCALE)))
    THEN Throw("Square root of negative number")
    ELSE IF Eq(x, Instance(BigMul(BigZero, SCALE)))
    THEN Ok(Instance(BigMul(BigZero, SCALE)))
    ELSE With(Div(x, Instance(BigMul(BigOfInt(2), SCALE))), LAMBDA initialGuess :
             IF ~initialGuess.ok THEN initialGuess
             ELSE sqrtGo(x, initialGuess.val, 10))

Sqrt ==
    /\ a # None
    /\ Return("sqrt", sqrt(a))

\* shiftedBy(n) without the test for an exact shift.
shiftedByLenient(value, n) ==
    With(BigPow10(IF n < 0 THEN 0 - n ELSE n), LAMBDA shiftFactor :
        IF n >= 0 THEN Raw(Ok(BigMul(value, shiftFactor)))
        ELSE Raw(Ok(BigDiv(value, shiftFactor))))

\* shiftedBy(n) of an instance holding `value`, lines 546-558
shiftedBy(value, n) ==
    With(BigPow10(IF n < 0 THEN 0 - n ELSE n), LAMBDA shiftFactor :
        IF n >= 0 THEN Raw(Ok(BigMul(value, shiftFactor)))
        ELSE IF BigRem(value, shiftFactor) # BigZero
        THEN Throw("Inexact shift")
        ELSE Raw(Ok(BigDiv(value, shiftFactor))))

ShiftedBy(n) ==
    /\ a # None
    /\ last' = [op |-> "shiftedBy", n |-> n, r |-> shiftedBy(a.value, n)]
    /\ UNCHANGED <<places, roundingMode, SCALE, SCALENUMBER, a, b>>

\* .shiftedBy(n) on the instance the last call returned
thenShiftedBy(n) ==
    /\ last.r.ok
    /\ last' = [op |-> "shiftedBy.shiftedBy", n |-> n,
                r |-> shiftedBy(last.r.val.value, n)]
    /\ UNCHANGED <<places, roundingMode, SCALE, SCALENUMBER, a, b>>

\* product(other), lines 395-397: the constructor is given the bigint
\* this.value * other.value.
product ==
    /\ a # None /\ b # None
    /\ Return("product",
              Raw(construct([type |-> "bigint", big |-> BigMul(a.value, b.value)])))

(***************************************************************************)
(* The class FixedDecimal of src/src/FixedDecimal.ts: a bigint scaled by   *)
(* 10^8.  An instance has the one field `value`; the model adds to it, as  *)
(* history, the string it was created from (of), which no operation reads. *)
(***************************************************************************)
\* FixedDecimal.format.places, lines 12-14; nothing assigns to it.
FixedDecimalPlaces == 8

\* FixedDecimal.fromString(value), lines 31-58
FixedDecimal_fromString(value) ==
    With(indexOf(value, ".", 0), LAMBDA dotIndex :
        IF dotIndex = -1
        THEN StringToBigInt(value \o <<"0", "0", "0", "0", "0", "0", "0", "0">>)
        ELSE IF indexOf(value, ".", dotIndex + 1) # -1
        THEN Throw("Invalid decimal format")
        ELSE With(IF slice(value, 0, dotIndex) = <<>> THEN <<"0">>
                  ELSE slice(value, 0, dotIndex), LAMBDA integerPart :
             With(slice(value, dotIndex + 1, Len(value)), LAMBDA decimalPart :
                 IF Len(decimalPart) < 8
                 THEN StringToBigInt(integerPart \o decimalPart
                        \o slice(<<"0", "0", "0", "0", "0", "0", "0", "0">>,
                                 Len(decimalPart), 8))
                 ELSE StringToBigInt(integerPart \o slice(decimalPart, 0, 8)))))

\* String(x) for a Number x that holds an integer below 10^21
NumberToString(x) ==
    BigIntToString(BigIntOfNumber(x).val)

\* FixedDecimal.toString(value), lines 70-99
FixedDecimal_toString(value) ==
    IF value = BigZero THEN <<"0">>
    ELSE With(BigDiv(value, BigPow10(FixedDecimalPlaces)), LAMBDA intPart :
         With(BigRem(value, BigPow10(FixedDecimalPlaces)), LAMBDA fracPart :
            IF fracPart # BigZero
            THEN (IF BigCmp(intPart, BigIntOfNumber(MAX_SAFE_INTEGER).val) > 0
                  THEN BigIntToString(intPart)
                  ELSE NumberToString(NumberOfBig(intPart)))
                 \o <<".">>
                 \o padStart(NumberToString(MathAbs(NumberOfBig(fracPart))),
                             FixedDecimalPlaces, "0")
            ELSE (IF BigCmp(intPart, BigSub(BigIntOfNumber(MAX_SAFE_INTEGER).val,
                                            BigOfInt(1))) > 0
                  THEN BigIntToString(intPart)
                  ELSE NumberToString(NumberOfBig(intPart)))
                 \o <<".", "0", "0", "0", "0", "0", "0", "0", "0">>))

\* new FixedDecimal(val) for a string val, lines 16-28, assigned to `slot`
NewDecimal(slot, val) ==
    With(FixedDecimal_fromString(val), LAMBDA r :
        /\ a' = IF slot = "a" /\ r.ok THEN [value |-> r.val, of |-> val] ELSE a
        /\ b' = IF slot = "b" /\ r.ok THEN [value |-> r.val, of |-> val] ELSE b
        /\ last' = [op |-> "FixedDecimal.new", arg |-> val, r |-> r]
        /\ UNCHANGED <<places, roundingMode, SCALE, SCALENUMBER>>)

\* a.add(b) of FixedDecimal, lines 111-113
FixedDecimal_add ==
    /\ a # None /\ b # None
    /\ Return("FixedDecimal.add",
              Ok([value |-> BigAdd(a.value, b.value), of |-> <<>>]))

\* .toString() on the instance that add() returned, lines 106-108
FixedDecimal_thenToString ==
    /\ last.r.ok
    /\ Return("FixedDecimal.add.toString",
              Ok(FixedDecimal_toString(last.r.val.value)))

(***************************************************************************)
(* The state after the class is loaded, lines 39-45.                       *)
(***************************************************************************)
Init ==
    /\ places = 8
    /\ roundingMode = 4
    /\ SCALENUMBER = NumberPow10(8)
    /\ SCALE = BigIntPow10(8)
    /\ a = None
    /\ b = None
    /\ last = [op |-> "none"]

(***************************************************************************)
(* The arguments of the calls.                                             *)
(***************************************************************************)
MaxPlaces == 2

MaxBigInt == 1

MaxMantissa == 160

\* 2.5
TwoAndAHalf ==
    NumberOfRatio(FALSE, <<2, 5>>, <<1, 0>>)

\* config.places: integers in and out of 0..20, a fraction and NaN
PlacesArgs ==
    {NumberOfInt(n) : n \in ((0 - 1)..(MaxPlaces + 1)) \cup {8, 20, 21}}
        \cup {TwoAndAHalf, NaN}

\* config.roundingMode: the nine modes, and a number on either side of them
ModeArgs ==
    (0 - 1)..9

ConfigArgs ==
    {[places |-> p] : p \in PlacesArgs}
        \cup {[roundingMode |-> m] : m \in ModeArgs}
        \cup {[places |-> p, roundingMode |-> m] : p \in PlacesArgs, m \in ModeArgs}

\* The calls of configure() in a program that also creates values.
SomeConfigArgs ==
    {[places |-> NumberOfInt(MaxPlaces), roundingMode |-> 4],
     [places |-> NumberOfInt(8), roundingMode |-> 4],
     [places |-> NumberOfInt(8), roundingMode |-> 6]}

BigIntArgs ==
    {[type |-> "bigint", big |-> BigOfInt(n)] : n \in (0 - MaxBigInt)..MaxBigInt}

NewArgs ==
    BigIntArgs \cup {[type |-> "number", num |-> TwoAndAHalf],
                     [type |-> "string", str |-> <<"1", ".", "5">>]}

(***************************************************************************)
(* SpecConfig: every sequence of calls of configure().                     *)
(***************************************************************************)
NextConfig ==
    \E config \in ConfigArgs : configure(config)

SpecConfig == Init /\ [][NextConfig]_vars

(***************************************************************************)
(* Spec: a program that configures and creates values in a and b, in any   *)
(* order, and then calls one of the methods that report on them.           *)
(***************************************************************************)
Reports ==
    {"cmp", "eq", "gt", "gte", "lt", "lte", "add", "sub", "mul", "div", "mod",
     "toString", "toJSON"}

\* Nothing is called after a method has reported.
Ready ==
    last.op \notin Reports

Next ==
    \/ Ready /\ \E config \in SomeConfigArgs : configure(config)
    \/ Ready /\ \E val \in NewArgs : New("a", val)
    \/ Ready /\ \E val \in BigIntArgs : New("b", val)
    \/ Ready /\ cmp
    \/ Ready /\ eq
    \/ Ready /\ gt
    \/ Ready /\ gte
    \/ Ready /\ lt
    \/ Ready /\ lte
    \/ Ready /\ add
    \/ Ready /\ sub
    \/ Ready /\ mul
    \/ Ready /\ div
    \/ Ready /\ mod
    \/ Ready /\ toStringMethod
    \/ Ready /\ toJSON

Spec == Init /\ [][Next]_vars

(***************************************************************************)
(* SpecValue: one call of a rounding or printing method on a value of any  *)
(* mantissa, under any number of places up to MaxPlaces.                   *)
(***************************************************************************)
InitValue ==
    /\ places \in 0..MaxPlaces
    /\ roundingMode = 4
    /\ SCALENUMBER = NumberPow10(places)
    /\ SCALE = BigIntPow10(places)
    /\ \E m \in (0 - MaxMantissa)..MaxMantissa : a = fromRaw(BigOfInt(m))
    /\ b = None
    /\ last = [op |-> "none"]

\* The one call has not been made yet.
Fresh ==
    last.op = "none"

NextValue ==
    \/ Fresh /\ \E dp \in 0..places, rm \in 0..8 : Round(dp, rm)
    \/ Fresh /\ ceil
    \/ Fresh /\ floor
    \/ Fresh /\ trunc
    \/ Fresh /\ toStringMethod
    \/ Fresh /\ toJSON

SpecValue == InitValue /\ [][NextValue]_vars

(***************************************************************************)
(* SpecString: one value created from a decimal string, under any number   *)
(* of places up to MaxPlaces or under the 8 places of the default          *)
(* configuration, and printed.                                             *)
(***************************************************************************)
MaxIntLen == 1

MaxFracLen == 2

DigitChoice ==
    {"0", "2", "3", "9"}

DigitStrings(lo, hi) ==
    UNION {[1..n -> DigitChoice] : n \in lo..hi}

\* [-]digits[.digits]
StringArgs ==
    {sign \o int \o frac :
        sign \in {<<>>, <<"-">>},
        int  \in DigitStrings(1, MaxIntLen),
        frac \in {<<>>} \cup {<<".">> \o f : f \in DigitStrings(1, MaxFracLen)}}

InitString ==
    /\ places \in (0..MaxPlaces) \cup {8}
    /\ roundingMode = 4
    /\ SCALENUMBER = NumberPow10(places)
    /\ SCALE = BigIntPow10(places)
    /\ a = None
    /\ b = None
    /\ last = [op |-> "none"]

NextString ==
    \/ Fresh /\ \E str \in StringArgs : New("a", [type |-> "string", str |-> str])
    \/ last.op = "new" /\ toStringMethod
    \/ last.op = "new" /\ toJSON

SpecString == InitString /\ [][NextString]_vars

(***************************************************************************)
(* SpecRound: round(), scale() or toFixed() called on a value of any       *)
(* mantissa with an argument in or next to 0..places, and round() called   *)
(* again with the same arguments on what round() returned.                 *)
(***************************************************************************)
NextRound ==
    \/ Fresh /\ \E dp \in (0 - 1)..(places + 1), rm \in 0..8 : Round(dp, rm)
    \/ last.op = "round" /\ thenRound(last.dp, last.rm)
    \/ Fresh /\ \E newScale \in (0 - 1)..(places + 1) : Scale(newScale, roundingMode)
    \/ Fresh /\ \E decPlaces \in (0 - 1)..(places + 1) : ToFixed(decPlaces, roundingMode)

SpecRound == InitValue /\ [][NextRound]_vars

(***************************************************************************)
(* SpecPair: one arithmetic method called on two values of small           *)
(* mantissas, and sub() or div() called on what add() or mul() returned.   *)
(***************************************************************************)
MaxOperand == 12

InitPair ==
    /\ places \in 0..MaxPlaces
    /\ roundingMode = 4
    /\ SCALENUMBER = NumberPow10(places)
    /\ SCALE = BigIntPow10(places)
    /\ \E m \in (0 - MaxOperand)..MaxOperand : a = fromRaw(BigOfInt(m))
    /\ \E m \in (0 - MaxOperand)..MaxOperand : b = fromRaw(BigOfInt(m))
    /\ last = [op |-> "none"]

NextPair ==
    \/ Fresh /\ add
    \/ last.op = "add" /\ thenSub
    \/ Fresh /\ mul
    \/ last.op = "mul" /\ thenDiv
    \/ Fresh /\ div
    \/ Fresh /\ mod
    \/ Fresh /\ fraction
    \/ Fresh /\ leftover
    \/ Fresh /\ product

SpecPair == InitPair /\ [][NextPair]_vars

(***************************************************************************)
(* Powers: one value of a small mantissa under 0 or 1 places, raised to    *)
(* the whole exponents -MaxExp..MaxExp and to 2.5.                         *)
(***************************************************************************)
MaxPowPlaces == 1
MaxPowOperand == 20
MaxExp == 3

PowArgs ==
    {NumberOfInt(n) : n \in (0 - MaxExp)..MaxExp} \cup {TwoAndAHalf}

InitPow ==
    /\ places \in 0..MaxPowPlaces
    /\ roundingMode = 4
    /\ SCALENUMBER = NumberPow10(places)
    /\ SCALE = BigIntPow10(places)
    /\ a \in {fromRaw(BigOfInt(m)) : m \in (0 - MaxPowOperand)..MaxPowOperand}
    /\ b = None
    /\ last = [op |-> "none"]

NextPow ==
    Fresh /\ \E exp \in PowArgs : Pow(exp)

SpecPow ==
    InitPow /\ [][NextPow]_vars

(***************************************************************************)
(* Square roots and decimal shifts of one value.                           *)
(***************************************************************************)
NextSqrt ==
    Fresh /\ Sqrt

SpecSqrt ==
    InitValue /\ [][NextSqrt]_vars

MaxShift == 2

NextShift ==
    \/ Fresh /\ \E n \in (0 - MaxShift)..MaxShift : ShiftedBy(n)
    \/ last.op = "shiftedBy" /\ last.n >= 0 /\ thenShiftedBy(0 - last.n)

SpecShift ==
    InitValue /\ [][NextShift]_vars

(***************************************************************************)
(* SpecNumber: one value created from a Number: a multiple of a quarter,   *)
(* 123456789.5, 2^47 + 0.5 or 2^53, of either sign, or NaN.                *)
(***************************************************************************)
MaxQuarters == 12

NumberArgs ==
    {NumberOfRatio(neg, NatOfInt(k, 10), <<4>>) :
        neg \in BOOLEAN, k \in 1..MaxQuarters}
    \cup {NumberOfRatio(neg, num, <<2>>) :
        neg \in BOOLEAN,
        num \in {<<2, 4, 6, 9, 1, 3, 5, 7, 9>>,
                 AddNat(PowNat(2, 48, 10), <<1>>, 10),
                 PowNat(2, 54, 10)}}
    \cup {NumberZero(FALSE), NumberZero(TRUE), NaN}

NextNumber ==
    Fresh /\ \E x \in NumberArgs : New("a", [type |-> "number", num |-> x])

SpecNumber ==
    InitString /\ [][NextNumber]_vars

(***************************************************************************)
(* SpecMalformed: one value created from a string that is no numeral:      *)
(* letters and dots, with a letter among them.                             *)
(***************************************************************************)
MaxWordLen == 3

MalformedArgs ==
    {w \in UNION {[1..n -> {"a", "x", "."}] : n \in 1..MaxWordLen} :
        \E i \in 1..Len(w) : w[i] # "."}
    \cup {[i \in 1..17 |-> "a"]}

NextMalformed ==
    Fresh /\ \E str \in MalformedArgs : New("a", [type |-> "string", str |-> str])

SpecMalformed ==
    InitString /\ [][NextMalformed]_vars

(***************************************************************************)
(* SpecDecimal: two FixedDecimal values created from decimal strings,      *)
(* added, and the sum printed.                                             *)
(***************************************************************************)
DecimalArgs ==
    {sign \o int \o frac :
        sign \in {<<>>, <<"-">>},
        int  \in {<<"0">>, <<"1">>, <<"2">>},
        frac \in {<<>>, <<".", "3">>, <<".", "5">>, <<".", "0", "5">>}}

NextDecimal ==
    \/ a = None /\ \E val \in DecimalArgs : NewDecimal("a", val)
    \/ a # None /\ b = None /\ \E val \in DecimalArgs : NewDecimal("b", val)
    \/ b # None /\ last.op = "FixedDecimal.new" /\ FixedDecimal_add
    \/ last.op = "FixedDecimal.add" /\ FixedDecimal_thenToString

SpecDecimal ==
    Init /\ [][NextDecimal]_vars

(***************************************************************************)
(* SpecSigned: one value created from a decimal string, with or without a  *)
(* leading minus, under few places, the default 8, or 15 or 20 places.     *)
(***************************************************************************)
InitSigned ==
    /\ places \in (0..MaxPlaces) \cup {8, 15, 20}
    /\ roundingMode = 4
    /\ SCALENUMBER = NumberPow10(places)
    /\ SCALE = BigIntPow10(places)
    /\ a = None
    /\ b = None
    /\ last = [op |-> "none"]

NextSigned ==
    Fresh /\ \E str \in StringArgs : New("a", [type |-> "string", str |-> str])

SpecSigned ==
    InitSigned /\ [][NextSigned]_vars

(***************************************************************************)
(* SpecFixed: toFixed() called on a value of any mantissa with every       *)
(* number of decimal places in 0..places and every rounding mode.          *)
(***************************************************************************)
NextFixed ==
    Fresh /\ \E decPlaces \in 0..places, rm \in 0..8 : ToFixed(decPlaces, rm)

SpecFixed ==
    InitValue /\ [][NextFixed]_vars

(***************************************************************************)
(* SpecFrame: two values of small mantissas under few places; values are   *)
(* constructed into either variable, with arguments that are accepted and  *)
(* one that is rejected, and then any one method is called.                *)
(***************************************************************************)
MaxFrameOperand == 3

InitFrame ==
    /\ places \in 0..MaxPowPlaces
    /\ roundingMode = 4
    /\ SCALENUMBER = NumberPow10(places)
    /\ SCALE = BigIntPow10(places)
    /\ \E m \in (0 - MaxFrameOperand)..MaxFrameOperand : a = fromRaw(BigOfInt(m))
    /\ \E m \in (0 - MaxFrameOperand)..MaxFrameOperand : b = fromRaw(BigOfInt(m))
    /\ last = [op |-> "none"]

FrameArgs ==
    NewArgs \cup {[type |-> "number", num |-> NaN]}

\* No method has been called yet.
Constructing ==
    last.op \in {"none", "new"}

NextFrame ==
    \/ Constructing /\ \E val \in FrameArgs : New("a", val)
    \/ Constructing /\ \E val \in FrameArgs : New("b", val)
    \/ Constructing /\ cmp
    \/ Constructing /\ eq
    \/ Constructing /\ gt
    \/ Constructing /\ gte
    \/ Constructing /\ lt
    \/ Constructing /\ lte
    \/ Constructing /\ add
    \/ Constructing /\ sub
    \/ Constructing /\ mul
    \/ Constructing /\ product
    \/ Constructing /\ div
    \/ Constructing /\ fraction
    \/ Constructing /\ mod
    \/ Constructing /\ leftover
    \/ Constructing /\ \E exp \in {NumberOfInt(2), NumberOfInt(0 - 1)} : Pow(exp)
    \/ Constructing /\ Sqrt
    \/ Constructing /\ \E dp \in (0 - 1)..(places + 1), rm \in {0, 6} : Round(dp, rm)
    \/ Constructing /\ ceil
    \/ Constructing /\ floor
    \/ Constructing /\ trunc
    \/ Constructing /\ \E newScale \in (0 - 1)..(places + 1) : Scale(newScale, roundingMode)
    \/ Constructing /\ \E n \in (0 - 1)..1 : ShiftedBy(n)
    \/ Constructing /\ \E decPlaces \in (0 - 1)..(places + 1) : ToFixed(decPlaces, roundingMode)
    \/ Constructing /\ toStringMethod
    \/ Constructing /\ toJSON

SpecFrame ==
    InitFrame /\ [][NextFrame]_vars

(***************************************************************************)
(* What the claims speak of, in integers and digit strings of their own.   *)
(***************************************************************************)
Abs(n) ==
    IF n < 0 THEN 0 - n ELSE n

\* The decimal digits of the natural number n, without leading zeros.
RECURSIVE NatChars(_)
NatChars(n) ==
    IF n < 10 THEN <<DigitChars[n + 1]>>
    ELSE NatChars(n \div 10) \o <<DigitChars[(n % 10) + 1]>>

\* The fixed-notation numeral of m / 10^p with exactly p fractional digits.
Canonical(m, p) ==
    (IF m < 0 THEN <<"-">> ELSE <<>>)
        \o NatChars(Abs(m) \div (10 ^ p))
        \o (IF p = 0 THEN <<>>
            ELSE <<".">> \o [i \in 1..p |-> DigitChars[((Abs(m) \div (10 ^ (p - i))) % 10) + 1]])

\* The numerals of the value of the decimal string str with its fractional
\* digits cut off after p digits and padded with zeros to p digits.  A
\* negative string whose digits are all cut off to zero may keep its sign.
Truncated(str, p) ==
    LET neg   == str[1] = "-"
        u     == IF neg THEN Tail(str) ELSE str
        dots  == {i \in 1..Len(u) : u[i] = "."}
        dot   == IF dots = {} THEN Len(u) + 1 ELSE CHOOSE i \in dots : TRUE
        int0  == SubSeq(u, 1, dot - 1)
        lead  == {i \in 1..Len(int0) : int0[i] # "0"}
        int   == IF lead = {} THEN <<"0">>
                 ELSE SubSeq(int0, CHOOSE i \in lead : \A j \in lead : i <= j, Len(int0))
        frac0 == SubSeq(u, dot + 1, Len(u))
        frac  == [i \in 1..p |-> IF i <= Len(frac0) THEN frac0[i] ELSE "0"]
        body  == int \o (IF p = 0 THEN <<>> ELSE <<".">> \o frac)
        zero  == \A i \in 1..Len(body) : body[i] \in {"0", "."}
    IN  IF ~neg THEN {body}
        ELSE IF zero THEN {body, <<"-">> \o body}
        ELSE {<<"-">> \o body}

\* The mantissa of a, and the unit 10^(places - dp) of a rounding to dp places.
Mantissa ==
    IntOfBig(a.value)

Unit(dp) ==
    10 ^ (places - dp)

\* The greatest multiple of f that is <= m, and the least that is >= m.
MultipleBelow(m, f) ==
    (m \div f) * f

MultipleAbove(m, f) ==
    IF m % f = 0 THEN m ELSE MultipleBelow(m, f) + f

\* m is half way between two multiples of f.
Tie(m, f) ==
    2 * (m % f) = f

\* The multiple of f nearest to m, when m is not at a tie.
Nearest(m, f) ==
    IF 2 * (m % f) < f THEN MultipleBelow(m, f) ELSE MultipleAbove(m, f)

\* The multiple of f that a directed rounding of m arrives at.
Directed(m, f, rm) ==
    CASE rm = 0 -> IF m >= 0 THEN MultipleAbove(m, f) ELSE MultipleBelow(m, f)
      [] rm = 1 -> IF m >= 0 THEN MultipleBelow(m, f) ELSE MultipleAbove(m, f)
      [] rm = 2 -> MultipleAbove(m, f)
      [] rm = 3 -> MultipleBelow(m, f)

\* The mantissa of b, and the scale 10^places.
MantissaB ==
    IntOfBig(b.value)

Scale10 ==
    10 ^ places

\* m / n truncated toward zero, n # 0
TruncDiv(m, n) ==
    IF (m < 0) = (n < 0) THEN Abs(m) \div Abs(n) ELSE 0 - (Abs(m) \div Abs(n))

\* The least integer >= m / n, for m >= 0 and n > 0
CeilDiv(m, n) ==
    (m + n - 1) \div n

\* Exponentiation by squaring in scaled space: for each bit of n, lowest
\* first, acc = acc * base / S when the bit is set, then base = base * base / S.
RECURSIVE SquareAndMultiply(_, _, _, _)
SquareAndMultiply(acc, base, n, S) ==
    IF n = 0 THEN acc
    ELSE SquareAndMultiply(IF n % 2 = 1 THEN TruncDiv(acc * base, S) ELSE acc,
                           TruncDiv(base * base, S), n \div 2, S)

\* trunc(x * 10^places) for the Number x = man * 2^exp, in exact arithmetic.
TruncScaled(x) ==
    IF x.man = <<>> THEN BigZero
    ELSE With(MulNat(DecimalOfBits(x.man), BigPow10(places).mag, 10), LAMBDA num :
             IF x.exp >= 0
             THEN Big(x.neg, MulNat(num, PowNat(2, x.exp, 10), 10))
             ELSE Big(x.neg, DivModNat(num, PowNat(2, 0 - x.exp, 10), 10).q))

\* The value of the decimal string [-]digits[.digits] in units of 10^-8.
DecimalValue(str) ==
    LET neg   == str[1] = "-"
        u     == IF neg THEN Tail(str) ELSE str
        dots  == {i \in 1..Len(u) : u[i] = "."}
        nfrac == IF dots = {} THEN 0 ELSE Len(u) - (CHOOSE i \in dots : TRUE)
        n     == IntOfNat(NatOfDigits(SelectSeq(u, IsDigit)), 10) * 10 ^ (8 - nfrac)
    IN  IF neg THEN 0 - n ELSE n

\* The shortest numeral of m / 10^8: no trailing fractional zeros, and no
\* "." when there is no fraction.
ShortestDecimal(m) ==
    LET frac == [i \in 1..8 |-> DigitChars[((Abs(m) \div (10 ^ (8 - i))) % 10) + 1]]
        keep == {i \in 1..8 : frac[i] # "0"}
        k    == IF keep = {} THEN 0 ELSE CHOOSE i \in keep : \A j \in keep : j <= i
    IN  (IF m < 0 THEN <<"-">> ELSE <<>>)
            \o NatChars(Abs(m) \div (10 ^ 8))
            \o (IF k = 0 THEN <<>> ELSE <<".">> \o SubSeq(frac, 1, k))

BinaryOps ==
    {"cmp", "eq", "gt", "gte", "lt", "lte", "add", "sub", "mul", "div", "mod"}

(***************************************************************************)
(* The claims.                                                             *)
(***************************************************************************)

\* C1: a value constructed from a bigint b has the mantissa b, whatever the
\* configured places: the argument is taken as scaled already.
C1_BigIntIsMantissa ==
    (last.op = "new" /\ last.arg.type = "bigint")
        => (last.r.ok /\ last.r.val.value = last.arg.big)

\* C1: new FixedPrecision(1n) under the 8 places of the default
\* configuration has the mantissa 100000000.
C1_BigIntScaled ==
    /\ last.op = "new" /\ last.arg.type = "bigint"
    /\ last.arg.big = BigOfInt(1)
    /\ places = 8
    /\ last.r.ok /\ last.r.val.value = BigOfInt(100000000)

\* C2: a value constructed from a valid decimal string prints, right after
\* its construction, as the string's value with the fractional digits
\* beyond places cut off and the missing ones padded with zeros.
C2_StringRoundTrip ==
    (last.op = "new" /\ last.arg.type = "string")
        => (last.r.ok /\ last.r.val.str0 \in Truncated(last.arg.str, places))

\* C2: new FixedPrecision("2.3") under 8 places prints as 2.29999999.
C2_TwoPointThree ==
    /\ last.op = "new" /\ last.arg.type = "string"
    /\ last.arg.str = <<"2", ".", "3">>
    /\ places = 8
    /\ last.r.ok
    /\ last.r.val.str0 = <<"2", ".", "2", "9", "9", "9", "9", "9", "9", "9">>

\* C3: toString() and toJSON() return the fixed-notation numeral of
\* mantissa / 10^places with exactly places fractional digits.
C3_CanonicalText ==
    (last.op \in {"toString", "toJSON"})
        => (last.r.ok /\ last.r.val = Canonical(Mantissa, places))

\* C3: under 0 places the mantissa 1 prints as 0.1.
C3_ZeroPlaces ==
    /\ last.op = "toString"
    /\ places = 0 /\ Mantissa = 1
    /\ last.r.val = <<"0", ".", "1">>

\* C4: a binary operation on two values created under different contexts
\* (different places or a different rounding mode) fails.
C4_MixedContextsFail ==
    (/\ last.op \in BinaryOps
     /\ (a.ctxPlaces # b.ctxPlaces \/ a.ctxMode # b.ctxMode))
        => ~last.r.ok

\* C4: add() returns a value for operands created under 8 and under
\* MaxPlaces places.
C4_MixedAdd ==
    /\ last.op = "add"
    /\ a.ctxPlaces = 8 /\ b.ctxPlaces = MaxPlaces
    /\ last.r.ok

\* C5: toString() of a value returns what it returned right after the
\* value was created, whatever calls of configure() came in between.
C5_TextKeepsContext ==
    (last.op = "toString")
        => (last.r.ok /\ last.r.val = a.str0)

\* C5: a value created under 8 places prints with MaxPlaces fractional
\* digits after configure({places: MaxPlaces}).
C5_TextFollowsConfigure ==
    /\ last.op = "toString"
    /\ a.ctxPlaces = 8 /\ places = MaxPlaces
    /\ last.r.val # a.str0

\* C6: a call of configure() that throws leaves places, roundingMode, SCALE
\* and SCALENUMBER as they were before the call.
C6_ConfigureAllOrNothing ==
    [][(last'.op = "configure" /\ ~last'.r.ok)
        => UNCHANGED <<places, roundingMode, SCALE, SCALENUMBER>>]_vars

\* C7: after any sequence of calls of configure(), places is in 0..20,
\* roundingMode is in 0..8 and SCALE and SCALENUMBER are both 10^places.
C7_ConfigInvariant ==
    /\ places \in 0..20
    /\ roundingMode \in 0..8
    /\ SCALE = BigPow10(places)
    /\ BigIntOfNumber(SCALENUMBER) = Ok(BigPow10(places))

\* C7: a call of configure() has thrown after calls that set 20 places and
\* the rounding mode 0.
C7_ThrownAtTwentyPlaces ==
    /\ last.op = "configure" /\ ~last.r.ok
    /\ places = 20 /\ roundingMode = 0
    /\ SCALE = BigPow10(20)

\* C8: away from a tie, round(dp, mode) with a half mode (4..8) returns the
\* multiple of 10^(places - dp) nearest to the mantissa.
C8_HalfModesNearest ==
    (/\ last.op = "round" /\ last.rm \in 4..8
     /\ ~Tie(Mantissa, Unit(last.dp)))
        => (/\ last.r.ok
            /\ IntOfBig(last.r.val.value) = Nearest(Mantissa, Unit(last.dp)))

\* C8: under 1 place, round(0, HALF_CEIL) of the mantissa -17 is -10.
C8_HalfCeilNegative ==
    /\ last.op = "round" /\ last.rm = 7 /\ last.dp = 0
    /\ places = 1 /\ Mantissa = 0 - 17
    /\ last.r.val.value = BigOfInt(0 - 10)

\* C9: round(dp, UP) goes to the next multiple of 10^(places - dp) away from
\* zero, round(dp, DOWN) to the next toward zero, round(dp, CEIL) to the
\* least multiple >= the mantissa and round(dp, FLOOR) to the greatest
\* multiple <= it; ceil(), floor() and trunc() return what round(0, CEIL),
\* round(0, FLOOR) and round(0, DOWN) return.
C9_DirectedRounding ==
    /\ (last.op = "round" /\ last.rm \in 0..3)
        => (/\ last.r.ok
            /\ IntOfBig(last.r.val.value) = Directed(Mantissa, Unit(last.dp), last.rm))
    /\ (last.op = "ceil")
        => (/\ last.r.ok
            /\ IntOfBig(last.r.val.value) = Directed(Mantissa, Unit(0), 2)
            /\ last.r = round(a.value, 0, 2))
    /\ (last.op = "floor")
        => (/\ last.r.ok
            /\ IntOfBig(last.r.val.value) = Directed(Mantissa, Unit(0), 3)
            /\ last.r = round(a.value, 0, 3))
    /\ (last.op = "trunc")
        => (/\ last.r.ok
            /\ IntOfBig(last.r.val.value) = Directed(Mantissa, Unit(0), 1)
            /\ last.r = round(a.value, 0, 1))

\* C9: under 1 place, round(0, FLOOR) of the mantissa -17 is -20.
C9_FloorNegative ==
    /\ last.op = "round" /\ last.rm = 3 /\ last.dp = 0
    /\ places = 1 /\ Mantissa = 0 - 17
    /\ last.r.val.value = BigOfInt(0 - 20)

\* C10: at a tie, round(dp, HALF_EVEN) returns a multiple of
\* 10^(places - dp) whose last retained digit is even and which is half of
\* 10^(places - dp) away from the mantissa.
C10_HalfEvenTie ==
    (/\ last.op = "round" /\ last.rm = 6
     /\ Tie(Mantissa, Unit(last.dp)))
        => (/\ last.r.ok
            /\ IntOfBig(last.r.val.value) % Unit(last.dp) = 0
            /\ (IntOfBig(last.r.val.value) \div Unit(last.dp)) % 2 = 0
            /\ 2 * Abs(IntOfBig(last.r.val.value) - Mantissa) = Unit(last.dp))

\* C10: under 2 places, round(0, HALF_EVEN) of the mantissa -150 is -200.
C10_TieNegative ==
    /\ last.op = "round" /\ last.rm = 6 /\ last.dp = 0
    /\ places = 2 /\ Mantissa = 0 - 150
    /\ last.r.val.value = BigOfInt(0 - 200)

\* C11: round(dp, mode) applied to what round(dp, mode) returned returns a
\* value with the same mantissa, for every dp in 0..places and every mode.
C11_RoundIdempotent ==
    (last.op = "round.round")
        => (last.r.ok /\ last.r.val.value = last.of.value)

\* C11: under 2 places the mantissa -150 rounded twice with round(0,
\* HALF_EVEN) is -200, as it is when rounded once.
C11_RoundedTwice ==
    /\ last.op = "round.round" /\ last.rm = 6 /\ last.dp = 0
    /\ places = 2 /\ Mantissa = 0 - 150
    /\ last.of.value = BigOfInt(0 - 200)
    /\ last.r.val.value = BigOfInt(0 - 200)

C13_AddSub ==
    (last.op = "add.sub")
        => (last.r.ok /\ last.r.val.value = a.value)

\* C13: a.add(b).sub(b) has returned -12 for a = -12 and b = 12.
C13_AddSubMixedSigns ==
    /\ last.op = "add.sub"
    /\ Mantissa = 0 - 12 /\ MantissaB = 12
    /\ last.r.val.value = BigOfInt(0 - 12)

\* C14: for b # 0, a.mul(b).div(b) has the mantissa of a when 10^places
\* divides the product of the two mantissas; otherwise its mantissa is not
\* larger in magnitude than that of a and differs from it by at most
\* ceil(10^places / |mantissa of b|).
C14_MulDiv ==
    (last.op = "mul.div" /\ MantissaB # 0)
        => (/\ last.r.ok
            /\ IF (Mantissa * MantissaB) % Scale10 = 0
               THEN IntOfBig(last.r.val.value) = Mantissa
               ELSE /\ Abs(IntOfBig(last.r.val.value)) <= Abs(Mantissa)
                    /\ Abs(IntOfBig(last.r.val.value) - Mantissa)
                           <= CeilDiv(Scale10, Abs(MantissaB)))

\* C14: under 2 places, 0.07 times -0.03 divided by -0.03 is 0.
C14_MulDivTruncated ==
    /\ last.op = "mul.div" /\ places = 2
    /\ Mantissa = 7 /\ MantissaB = 0 - 3
    /\ last.r.ok /\ last.r.val.value = BigZero

\* C15: div, mod, fraction and leftover throw the division-by-zero error
\* when the mantissa of the divisor is 0.
C15_ZeroDivisor ==
    (last.op \in {"div", "mod", "fraction", "leftover"} /\ MantissaB = 0)
        => (~last.r.ok /\ last.r.err = "RangeError: Division by zero")

\* C15: leftover has thrown for the dividend 12 and the divisor 0.
C15_LeftoverByZero ==
    /\ last.op = "leftover" /\ Mantissa = 12 /\ MantissaB = 0
    /\ ~last.r.ok

\* C16: for b # 0, the mantissa of a.mod(b) is
\* mantissa of a - mantissa of b * trunc(mantissa of a / mantissa of b).
C16_ModIsRemainder ==
    (last.op = "mod" /\ MantissaB # 0)
        => (/\ last.r.ok
            /\ IntOfBig(last.r.val.value)
                   = Mantissa - MantissaB * TruncDiv(Mantissa, MantissaB))

\* C16: under 1 place, 0.1 mod 0.4 is 0.2.
C16_ModScaled ==
    /\ last.op = "mod" /\ places = 1
    /\ Mantissa = 1 /\ MantissaB = 4
    /\ last.r.ok /\ last.r.val.value = BigOfInt(2)

(***************************************************************************)
(* C17: a.pow(n) for a whole exponent n is the result of exponentiation by *)
(* squaring in scaled space, started from acc = scale and base = the       *)
(* mantissa of a; for n < 0 it is scale * scale / acc, and fails when acc  *)
(* is zero.                                                                *)
(***************************************************************************)
C17_PowBySquaring ==
    (last.op = "pow" /\ NumberIsInteger(last.exp)) =>
        LET n   == IntOfNumber(last.exp)
            acc == SquareAndMultiply(Scale10, Mantissa, Abs(n), Scale10)
        IN  IF n >= 0
            THEN last.r.ok /\ last.r.val.value = BigOfInt(acc)
            ELSE IF acc = 0
            THEN ~last.r.ok
            ELSE /\ last.r.ok
                 /\ last.r.val.value = BigOfInt(TruncDiv(Scale10 * Scale10, acc))

\* 2.0 to the power 3 under one decimal place comes out as 1073741824.0:
\* 20 ** 30n over 10 ** 30n, in scaled space.
C17_TwoCubed ==
    /\ last.op = "pow"
    /\ places = 1
    /\ Mantissa = 20
    /\ last.exp = NumberOfInt(3)
    /\ last.r.ok
    /\ last.r.val.value = Big(FALSE, <<1, 0, 7, 3, 7, 4, 1, 8, 2, 4, 0>>)

(***************************************************************************)
(* C18: pow with an exponent that is not a whole number fails with an      *)
(* error.                                                                  *)
(***************************************************************************)
C18_FractionalExponentFails ==
    (last.op = "pow" /\ ~NumberIsInteger(last.exp)) => ~last.r.ok

\* 2 to the power 2.5 under zero places returns 4.
C18_TwoAndAHalfReturns ==
    /\ last.op = "pow"
    /\ last.exp = TwoAndAHalf
    /\ places = 0
    /\ Mantissa = 2
    /\ last.r.ok
    /\ last.r.val.value = BigOfInt(4)

(***************************************************************************)
(* C19: the square root of a perfect square r * r, r >= 0 representable,   *)
(* is r exactly.  With k the mantissa of r, the mantissa of r * r is       *)
(* k * k / scale.                                                          *)
(***************************************************************************)
C19_SqrtOfSquare ==
    last.op = "sqrt" =>
        \A k \in 0..(MaxMantissa * 10) :
            k * k = Mantissa * Scale10 =>
                last.r.ok /\ last.r.val.value = BigOfInt(k)

\* The square root of 1 under zero places divides by the guess 1 / 2 = 0.
C19_SqrtOfOne ==
    /\ last.op = "sqrt"
    /\ places = 0
    /\ Mantissa = 1
    /\ ~last.r.ok
    /\ last.r.err = "RangeError: Division by zero"

(***************************************************************************)
(* C20: a.shiftedBy(n).shiftedBy(-n) is a for n >= 0, shiftedBy(n) then    *)
(* multiplying the mantissa by 10^n.  For n < 0, shiftedBy(n) fails with   *)
(* 'Inexact shift' exactly when 10^|n| does not divide the mantissa, and   *)
(* otherwise returns the mantissa divided by 10^|n|.                       *)
(***************************************************************************)
C20_ShiftedBy ==
    /\ (last.op = "shiftedBy" /\ last.n >= 0) =>
            /\ last.r.ok
            /\ last.r.val.value = BigOfInt(Mantissa * 10 ^ last.n)
    /\ (last.op = "shiftedBy" /\ last.n < 0) =>
            IF Mantissa % (10 ^ Abs(last.n)) # 0
            THEN ~last.r.ok /\ last.r.err = "Inexact shift"
            ELSE /\ last.r.ok
                 /\ last.r.val.value = BigOfInt(Mantissa \div (10 ^ Abs(last.n)))
    /\ last.op = "shiftedBy.shiftedBy" =>
            last.r.ok /\ last.r.val.value = a.value

\* -0.07 shifted up by two digits and down again.
C20_ShiftedUpAndBack ==
    /\ last.op = "shiftedBy.shiftedBy"
    /\ last.n = 0 - 2
    /\ Mantissa = 0 - 7
    /\ last.r.ok
    /\ last.r.val.value = BigOfInt(0 - 7)

(***************************************************************************)
(* C21: a.product(b) has the mantissa m_a * m_b exactly, with no division  *)
(* and no multiplication by the scale.                                     *)
(***************************************************************************)
C21_ProductIsRaw ==
    last.op = "product" =>
        last.r.ok /\ last.r.val.value = BigOfInt(Mantissa * MantissaB)

\* 0.2 product 0.3 under one place has the mantissa 60, not 6.
C21_ProductScaled ==
    /\ last.op = "product"
    /\ places = 1
    /\ Mantissa = 2
    /\ MantissaB = 3
    /\ last.r.ok
    /\ last.r.val.value = BigOfInt(60)

(***************************************************************************)
(* C22: new FixedPrecision(x) for a finite Number x has the mantissa       *)
(* trunc(x * 10^places), truncated toward zero, also past 2^53 - 1, so     *)
(* that -x gives the negated mantissa; NaN fails with an error.            *)
(***************************************************************************)
C22_NumberTruncated ==
    (last.op = "new" /\ last.arg.type = "number") =>
        IF last.arg.num.nan
        THEN ~last.r.ok
        ELSE last.r.ok /\ last.r.val.value = TruncScaled(last.arg.num)

\* -123456789.5 under 8 places gets the mantissa -12345678850000000.
C22_NegativeHalf ==
    /\ last.op = "new"
    /\ places = 8
    /\ last.arg.num = NumberOfRatio(TRUE, <<2, 4, 6, 9, 1, 3, 5, 7, 9>>, <<2>>)
    /\ last.r.ok
    /\ last.r.val.value =
            Big(TRUE, <<1, 2, 3, 4, 5, 6, 7, 8, 8, 5, 0, 0, 0, 0, 0, 0, 0>>)

(***************************************************************************)
(* C23: constructing a value from a string that is no numeral fails with   *)
(* an error, with or without a dot and at any length.                      *)
(***************************************************************************)
C23_MalformedFails ==
    (last.op = "new" /\ last.arg.type = "string"
        /\ \E i \in 1..Len(last.arg.str) : ~IsDigit(last.arg.str[i])
                                           /\ last.arg.str[i] \notin {"-", "+", "."})
        => ~last.r.ok

\* "aax" under the default 8 places becomes the value 0.
C23_WordIsZero ==
    /\ last.op = "new"
    /\ places = 8
    /\ last.arg.str = <<"a", "a", "x">>
    /\ last.r.ok
    /\ last.r.val.value = BigZero

(***************************************************************************)
(* C24: new FixedDecimal(a).add(new FixedDecimal(b)).toString() is the     *)
(* exact decimal sum of the strings a and b in shortest form, without      *)
(* trailing fractional zeros.                                              *)
(***************************************************************************)
C24_DecimalSumShortest ==
    last.op = "FixedDecimal.add.toString" =>
        /\ last.r.ok
        /\ last.r.val = ShortestDecimal(DecimalValue(a.of) + DecimalValue(b.of))

\* "1.5" plus "2.3" prints "3.80000000".
C24_SumPadded ==
    /\ last.op = "FixedDecimal.add.toString"
    /\ a.of = <<"1", ".", "5">>
    /\ b.of = <<"2", ".", "3">>
    /\ last.r.val = <<"3", ".", "8", "0", "0", "0", "0", "0", "0", "0">>

(***************************************************************************)
(* C25: toString() of a negative mantissa m is one leading "-" followed by *)
(* the string toString() returns for -m, with no other sign character; the *)
(* mantissa 0 prints without a sign.                                       *)
(***************************************************************************)
C25_SingleLeadingMinus ==
    last.op = "toString" =>
        /\ last.r.ok
        /\ Mantissa < 0 => last.r.val = <<"-">> \o toString(BigNeg(a.value))
        /\ \A i \in 2..Len(last.r.val) : last.r.val[i] # "-"
        /\ Mantissa = 0 => last.r.val[1] # "-"

\* -0.05 under two places prints "-0.-5".
C25_MinusInFraction ==
    /\ last.op = "toString"
    /\ places = 2
    /\ Mantissa = 0 - 5
    /\ last.r.val = <<"-", "0", ".", "-", "5">>

(***************************************************************************)
(* C26: when the unsigned decimal string s parses to the mantissa m, the   *)
(* string "-" followed by s parses to -m, also with the integer part 0 and *)
(* with more than 14 places.                                               *)
(***************************************************************************)
C26_LeadingMinus ==
    (last.op = "new" /\ last.arg.type = "string" /\ Head(last.arg.str) = "-") =>
        (fromString(Tail(last.arg.str)).ok =>
            /\ last.r.ok
            /\ last.r.val.value = BigNeg(fromString(Tail(last.arg.str)).val))

\* "-0.3" under 15 places parses to the mantissa of "0.3".
C26_SignLost ==
    /\ last.op = "new"
    /\ places = 15
    /\ last.arg.str = <<"-", "0", ".", "3">>
    /\ last.r.ok
    /\ last.r.val.value = Big(FALSE, <<3>> \o Zeros(14))

(***************************************************************************)
(* C27: at a tie, where twice the remainder is 10^(places - dp) in         *)
(* magnitude, round(dp, HALF_UP) returns the neighbour away from zero,     *)
(* round(dp, HALF_DOWN) the neighbour toward zero, round(dp, HALF_CEIL)    *)
(* the larger neighbour and round(dp, HALF_FLOOR) the smaller one, for     *)
(* positive and for negative mantissas.                                    *)
(***************************************************************************)
C27_TieBreaking ==
    (/\ last.op = "round" /\ last.rm \in {4, 5, 7, 8}
     /\ Tie(Mantissa, Unit(last.dp)))
        => (/\ last.r.ok
            /\ IntOfBig(last.r.val.value) =
                 CASE last.rm = 4 -> (IF Mantissa > 0
                                      THEN MultipleAbove(Mantissa, Unit(last.dp))
                                      ELSE MultipleBelow(Mantissa, Unit(last.dp)))
                   [] last.rm = 5 -> (IF Mantissa > 0
                                      THEN MultipleBelow(Mantissa, Unit(last.dp))
                                      ELSE MultipleAbove(Mantissa, Unit(last.dp)))
                   [] last.rm = 7 -> MultipleAbove(Mantissa, Unit(last.dp))
                   [] last.rm = 8 -> MultipleBelow(Mantissa, Unit(last.dp)))

\* C27: under 2 places, round(1, HALF_FLOOR) of the mantissa -25 is -30.
C27_HalfFloorNegativeTie ==
    /\ last.op = "round" /\ last.rm = 8 /\ last.dp = 1
    /\ places = 2 /\ Mantissa = 0 - 25
    /\ last.r.ok
    /\ last.r.val.value = BigOfInt(0 - 30)

(***************************************************************************)
(* C28: sqrt() fails exactly when the value is negative: zero gives zero   *)
(* and every positive value, down to the mantissa 1, gives a value without *)
(* an error.                                                               *)
(***************************************************************************)
C28_SqrtFailsOnlyBelowZero ==
    last.op = "sqrt" =>
        /\ last.r.ok <=> Mantissa >= 0
        /\ Mantissa < 0 => last.r.err = "Square root of negative number"
        /\ Mantissa = 0 => last.r.val.value = BigZero

\* The square root of 0.01 under two places fails with a division by zero.
C28_SqrtOfHundredth ==
    /\ last.op = "sqrt"
    /\ places = 2
    /\ Mantissa = 1
    /\ ~last.r.ok
    /\ last.r.err = "RangeError: Division by zero"

(***************************************************************************)
(* C29: toFixed(dp, mode) is a well-formed numeral, with at most one "-"   *)
(* and that in front, and with exactly dp fractional digits, of the value  *)
(* that round(dp, mode) returns; with dp = places it is toString().        *)
(***************************************************************************)
C29_ToFixedWellFormed ==
    last.op = "toFixed" =>
        /\ last.r.ok
        /\ last.r.val =
             Canonical(IntOfBig(round(a.value, last.dp, last.rm).val.value)
                            \div Unit(last.dp), last.dp)
        /\ last.dp = places => last.r.val = toString(a.value)

\* -1.25 under two places: toFixed(2) is "-1.-25".
C29_MinusInFraction ==
    /\ last.op = "toFixed"
    /\ places = 2
    /\ Mantissa = 0 - 125
    /\ last.dp = 2
    /\ last.r.ok
    /\ last.r.val = <<"-", "1", ".", "-", "2", "5">>

(***************************************************************************)
(* C30: no call other than configure() changes places, roundingMode or the *)
(* scale factors, and none changes a value that exists: a method leaves    *)
(* both operands as they are whether it returns or throws, and a           *)
(* construction assigns one variable at most, none when it throws.         *)
(***************************************************************************)
C30_OnlyConfigureChanges ==
    [][last'.op # "configure" =>
        /\ UNCHANGED <<places, roundingMode, SCALE, SCALENUMBER>>
        /\ (last'.op # "new" \/ ~last'.r.ok) => UNCHANGED <<a, b>>
        /\ last'.op = "new" => (a' = a \/ b' = b)]_vars

\* 0.3 divided by 0 under one place has thrown, and both operands are there.
C30_OperandsAfterThrow ==
    /\ last.op = "div"
    /\ ~last.r.ok
    /\ places = 1
    /\ Mantissa = 3
    /\ MantissaB = 0
====
